---- MODULE Spec2Model ----
(***************************************************************************)
(* A model of tabula-py: the extraction option record and its rendering    *)
(* (tabula/util.py), the process-wide backend dispatcher (tabula/io.py,    *)
(* tabula/backend.py), input localisation and the temporary files it       *)
(* leaves (tabula/file_util.py), and template-driven extraction            *)
(* (tabula/template.py).                                                   *)
(*                                                                         *)
(* Python values are records [kind, val]; kind is the Python type name.    *)
(***************************************************************************)
EXTENDS Integers, Sequences, FiniteSets, TLC

VARIABLES
    tabula_vm,   \* io._tabula_vm: the process-wide backend object
    created,     \* backend objects constructed so far, by class
    jvm,         \* the embedded JVM of the process (jpype)
    userList,    \* contents of the java_options list object the caller holds
    userPandas,  \* contents of the pandas_options dict the caller holds
    environ,     \* os.environ.get("TABULA_JAR"): None when it is not set
    tmpfiles,    \* temporary files present in the temp directory
    calls,       \* number of steps of the process so far: the entry-point
                 \* calls and the settings of the environment
    last,        \* what the last entry-point call did and how it ended
    platform,    \* platform.system()
    opt,         \* a TabulaOption instance (option-rendering specification)
    res,         \* result of the last pure operation applied to opt
    arg,         \* arguments of a function call (function specification)
    ret          \* what the function call returned or raised

vars == <<tabula_vm, created, jvm, userList, userPandas, environ, tmpfiles,
          calls, last, platform, opt, res, arg, ret>>

renderVars == <<opt, res>>

fnVars == <<arg, ret>>

dispatchVars == <<tabula_vm, created, jvm, userList, userPandas, environ,
                  tmpfiles, calls, last, platform>>

-----------------------------------------------------------------------------
(* Python values *)

PyNone == [kind |-> "NoneType", val |-> FALSE]

PyBool(b) == [kind |-> "bool", val |-> b]

PyInt(n) == [kind |-> "int", val |-> n]

PyStr(s) == [kind |-> "str", val |-> s]

PyList(s) == [kind |-> "list", val |-> s]

PyTuple(s) == [kind |-> "tuple", val |-> s]

IntList(s) == PyList([i \in DOMAIN s |-> PyInt(s[i])])

IntTuple(s) == PyTuple([i \in DOMAIN s |-> PyInt(s[i])])

\* bool(x)
Truthy(x) ==
    CASE x.kind = "NoneType" -> FALSE
      [] x.kind = "bool" -> x.val
      [] x.kind = "int" -> x.val # 0
      [] x.kind = "str" -> x.val # ""
      [] OTHER -> Len(x.val) > 0

\* type(x) in [list, tuple]
IsListOrTuple(x) == x.kind \in {"list", "tuple"}

\* isinstance(x, int): bool is a subclass of int
IsInt(x) == x.kind \in {"int", "bool"}

\* the integer an int or a bool is as an index: True is 1 and False is 0
IntOf(x) == IF x.kind = "bool" THEN (IF x.val THEN 1 ELSE 0) ELSE x.val

\* str(x) for the scalar values of the model
Str(x) ==
    CASE x.kind = "int" -> ToString(x.val)
      [] x.kind = "str" -> x.val
      [] x.kind = "bool" -> (IF x.val THEN "True" ELSE "False")
      [] OTHER -> "None"

RECURSIVE Join(_, _)
\* sep.join(strs)
Join(strs, sep) ==
    IF Len(strs) = 0 THEN ""
    ELSE IF Len(strs) = 1 THEN strs[1]
    ELSE strs[1] \o sep \o Join(Tail(strs), sep)

\* map(str, values)
MapStr(values) == [i \in DOMAIN values |-> Str(values[i])]

RECURSIVE InsertSorted(_, _)
InsertSorted(x, s) ==
    IF Len(s) = 0 THEN <<x>>
    ELSE IF x.val < Head(s).val THEN <<x>> \o s
    ELSE <<Head(s)>> \o InsertSorted(x, Tail(s))

RECURSIVE SortVals(_)
SortVals(s) ==
    IF Len(s) = 0 THEN <<>>
    ELSE InsertSorted(s[Len(s)], SortVals(SubSeq(s, 1, Len(s) - 1)))

\* The one element of a singleton set.  The({e : x \in {v}}) is e with x
\* naming the value v, as a local variable names the value assigned to it.
The(S) == CHOOSE v \in S : TRUE

\* sorted(x): always a list, whatever the type of x
Sorted(x) == PyList(SortVals(x.val))

-----------------------------------------------------------------------------
(* shlex.split, for strings of plain characters, blanks and single quotes *)

RECURSIVE ShlexScan(_, _, _, _, _, _)
ShlexScan(s, i, cur, inTok, inQuote, acc) ==
    IF i > Len(s)
    THEN IF inQuote
         THEN [raised |-> "ValueError", tokens |-> <<>>]
         ELSE [raised |-> "None",
               tokens |-> IF inTok THEN Append(acc, cur) ELSE acc]
    ELSE LET c == SubSeq(s, i, i) IN
         IF inQuote
         THEN IF c = "'"
              THEN ShlexScan(s, i + 1, cur, TRUE, FALSE, acc)
              ELSE ShlexScan(s, i + 1, cur \o c, TRUE, TRUE, acc)
         ELSE IF c = " "
              THEN IF inTok
                   THEN ShlexScan(s, i + 1, "", FALSE, FALSE, Append(acc, cur))
                   ELSE ShlexScan(s, i + 1, "", FALSE, FALSE, acc)
              ELSE IF c = "'"
                   THEN ShlexScan(s, i + 1, cur, TRUE, TRUE, acc)
                   ELSE ShlexScan(s, i + 1, cur \o c, TRUE, FALSE, acc)

shlex_split(s) == ShlexScan(s, 1, "", FALSE, FALSE, <<>>)

-----------------------------------------------------------------------------
(* tabula/util.py: TabulaOption *)

\* a TabulaOption instance with the dataclass defaults
DefaultOption ==
    [pages |-> PyNone, guess |-> PyBool(TRUE), area |-> PyNone,
     relative_area |-> PyBool(FALSE), lattice |-> PyBool(FALSE),
     stream |-> PyBool(FALSE), password |-> PyNone, silent |-> PyNone,
     columns |-> PyNone, relative_columns |-> PyBool(FALSE),
     format |-> PyNone, batch |-> PyNone, output_path |-> PyNone,
     options |-> PyStr(""), multiple_tables |-> PyBool(TRUE)]

_format_with_relative(values, is_relative) ==
    (IF Truthy(is_relative) THEN "%" ELSE "") \o Join(MapStr(values.val), ",")

\* _validate_area with `left > right` for `left >= right`
_validate_area_loose(values) ==
    IF ~IsListOrTuple(values) THEN "TypeError"
    ELSE IF Len(values.val) # 4 THEN "ValueError"
    ELSE IF values.val[1].val >= values.val[3].val THEN "ValueError"
    ELSE IF values.val[2].val > values.val[4].val THEN "ValueError"
    ELSE "None"

\* The exception _validate_area raises, "None" when it returns normally.
_validate_area(values) ==
    IF ~IsListOrTuple(values) THEN "TypeError"
    ELSE IF Len(values.val) # 4 THEN "ValueError"
    ELSE IF values.val[1].val >= values.val[3].val THEN "ValueError"
    ELSE IF values.val[2].val >= values.val[4].val THEN "ValueError"
    ELSE "None"

\* if self.options: __options += shlex.split(self.options)
RawTokens(self) ==
    IF Truthy(self.options) THEN shlex_split(self.options.val)
    ELSE [raised |-> "None", tokens |-> <<>>]

\* if self.pages: ... __options += ["--pages", __pages]
PagesTokens(self) ==
    IF ~Truthy(self.pages) THEN <<>>
    ELSE IF IsInt(self.pages) THEN <<"--pages", Str(self.pages)>>
    ELSE IF IsListOrTuple(self.pages)
         THEN <<"--pages", Join(MapStr(self.pages.val), ",")>>
    ELSE <<"--pages", self.pages.val>>

RECURSIVE AreaLoop(_, _, _, _)
\* for e in self.area: _validate_area(e); __options += ["--area", ...]
AreaLoop(areas, i, relative, acc) ==
    IF i > Len(areas) THEN [raised |-> "None", tokens |-> acc]
    ELSE LET err == _validate_area(areas[i]) IN
         IF err # "None" THEN [raised |-> err, tokens |-> <<>>]
         ELSE AreaLoop(areas, i + 1, relative,
                       acc \o <<"--area",
                                _format_with_relative(areas[i], relative)>>)

\* the `if self.area:` block; multiple is the local multiple_areas
AreaTokens(self) ==
    IF ~Truthy(self.area) \/ ~IsListOrTuple(self.area)
    THEN [raised |-> "None", tokens |-> <<>>, multiple |-> FALSE]
    ELSE IF \E i \in DOMAIN self.area.val : IsListOrTuple(self.area.val[i])
    THEN LET r == AreaLoop(self.area.val, 1, self.relative_area, <<>>) IN
         [raised |-> r.raised, tokens |-> r.tokens,
          multiple |-> r.raised = "None"]
    ELSE LET err == _validate_area(self.area) IN
         IF err # "None"
         THEN [raised |-> err, tokens |-> <<>>, multiple |-> FALSE]
         ELSE [raised |-> "None",
               tokens |-> <<"--area",
                            _format_with_relative(self.area,
                                                  self.relative_area)>>,
               multiple |-> FALSE]

\* the `if self.area:` block without its `self.guess = False`
AfterArea_unchanged(self) == self

\* the instance after the `if self.area:` block: self.guess = False
AfterArea(self) ==
    IF Truthy(self.area) THEN [self EXCEPT !.guess = PyBool(FALSE)] ELSE self

\* --lattice, --stream, --guess
ModeTokens(self, multiple_areas) ==
    (IF Truthy(self.lattice) THEN <<"--lattice">> ELSE <<>>)
    \o (IF Truthy(self.stream) THEN <<"--stream">> ELSE <<>>)
    \o (IF Truthy(self.guess) /\ ~multiple_areas THEN <<"--guess">> ELSE <<>>)

\* --format, --outfile
OutputTokens(self) ==
    (IF Truthy(self.format) THEN <<"--format", self.format.val>> ELSE <<>>)
    \o (IF Truthy(self.output_path)
        THEN <<"--outfile", self.output_path.val>> ELSE <<>>)

\* the `if self.columns:` block
ColumnsTokens(self) ==
    IF ~Truthy(self.columns) THEN [raised |-> "None", tokens |-> <<>>]
    ELSE IF self.columns # Sorted(self.columns)
    THEN [raised |-> "ValueError", tokens |-> <<>>]
    ELSE [raised |-> "None",
          tokens |-> <<"--columns",
                       _format_with_relative(self.columns,
                                             self.relative_columns)>>]

\* --password, --batch, --silent
TrailingTokens_swapped(self) ==
    (IF Truthy(self.silent) THEN <<"--silent">> ELSE <<>>)
    \o (IF Truthy(self.batch) THEN <<"--batch", self.batch.val>> ELSE <<>>)
    \o (IF Truthy(self.password)
        THEN <<"--password", self.password.val>> ELSE <<>>)

TrailingTokens(self) ==
    (IF Truthy(self.password)
     THEN <<"--password", self.password.val>> ELSE <<>>)
    \o (IF Truthy(self.batch) THEN <<"--batch", self.batch.val>> ELSE <<>>)
    \o (IF Truthy(self.silent) THEN <<"--silent">> ELSE <<>>)

\* TabulaOption.build_option_list: the exception raised ("None" if it
\* returns), the list returned, and the instance as the call leaves it.
build_option_list(self) ==
    LET raw == RawTokens(self)
        area == AreaTokens(self)
        self2 == AfterArea(self)
        cols == ColumnsTokens(self2)
    IN  IF raw.raised # "None"
        THEN [raised |-> raw.raised, tokens |-> <<>>, self |-> self]
        ELSE IF area.raised # "None"
        THEN [raised |-> area.raised, tokens |-> <<>>, self |-> self2]
        ELSE IF cols.raised # "None"
        THEN [raised |-> cols.raised, tokens |-> <<>>, self |-> self2]
        ELSE [raised |-> "None",
              tokens |-> raw.tokens \o PagesTokens(self2) \o area.tokens
                         \o ModeTokens(self2, area.multiple)
                         \o OutputTokens(self2) \o cols.tokens
                         \o TrailingTokens(self2),
              self |-> self2]

-----------------------------------------------------------------------------
(* Option rendering as a state machine: an option is drawn from a bounded  *)
(* set of instances and build_option_list is applied to it.                *)

\* largest number of regions in a nested area
MaxRegions == 2

R1 == IntList(<<10, 20, 30, 40>>)

R2 == IntList(<<0, 0, 5, 5>>)

\* bottom < top
RBad == IntList(<<10, 10, 5, 50>>)

\* three values
RShort == IntList(<<10, 20, 30>>)

\* left = right
REqual == IntList(<<0, 50, 10, 50>>)

RegionPool == <<R1, R2, RBad>>

NestedAreas ==
    {PyList(SubSeq(RegionPool, i, j)) :
        i \in 1..Len(RegionPool),
        j \in 1..Len(RegionPool)} \ {PyList(<<>>)}

AreaDomain ==
    {PyNone, PyList(<<>>), R1, RBad, RShort, REqual}
    \cup {a \in NestedAreas : Len(a.val) <= MaxRegions}

PagesDomain == {PyNone, PyInt(1), PyBool(TRUE), IntList(<<1, 2>>)}

ColumnsDomain ==
    {PyNone, IntList(<<10, 50, 90>>), IntList(<<50, 10, 90>>),
     IntTuple(<<10, 50, 90>>)}

FlagDomain == {PyBool(FALSE), PyBool(TRUE)}

\* (password, format, batch, output_path): none of them set, one of them
\* set, all of them set
OutputDomain ==
    LET none == [password |-> PyNone, format |-> PyNone, batch |-> PyNone,
                 output_path |-> PyNone]
    IN  {none,
         [none EXCEPT !.password = PyStr("secret")],
         [none EXCEPT !.format = PyStr("JSON")],
         [none EXCEPT !.batch = PyStr("pdfs")],
         [none EXCEPT !.output_path = PyStr("out.csv")],
         [password |-> PyStr("secret"), format |-> PyStr("JSON"),
          batch |-> PyStr("pdfs"), output_path |-> PyStr("out.csv")]}

OptionDomain ==
    {[pages |-> pages, guess |-> guess, area |-> area,
      relative_area |-> relative_area, lattice |-> lattice,
      stream |-> stream, password |-> o.password, silent |-> silent,
      columns |-> columns, relative_columns |-> relative_columns,
      format |-> o.format, batch |-> o.batch, output_path |-> o.output_path,
      options |-> options, multiple_tables |-> PyBool(TRUE)] :
        pages \in PagesDomain, guess \in FlagDomain, area \in AreaDomain,
        relative_area \in FlagDomain, lattice \in FlagDomain,
        stream \in FlagDomain, silent \in {PyNone, PyBool(TRUE)},
        columns \in ColumnsDomain, relative_columns \in FlagDomain,
        o \in OutputDomain, options \in {PyStr(""), PyStr("-r '-n x'")}}

NotCalled(o) ==
    [op |-> "none", before |-> o, raised |-> "None", tokens |-> <<>>]

\* TabulaOption.build_option_list() applied to the instance opt
BuildOptionList ==
    /\ res.op = "none"
    /\ LET r == build_option_list(opt) IN
        /\ opt' = r.self
        /\ res' = [op |-> "build_option_list", before |-> opt,
                   raised |-> r.raised, tokens |-> r.tokens]
    /\ UNCHANGED dispatchVars
    /\ UNCHANGED fnVars

-----------------------------------------------------------------------------
(* Strings *)

RECURSIVE FindFrom(_, _, _)
\* hay.find(needle, i)
FindFrom(hay, needle, i) ==
    IF i + Len(needle) > Len(hay) THEN -1
    ELSE IF SubSeq(hay, i + 1, i + Len(needle)) = needle THEN i
    ELSE FindFrom(hay, needle, i + 1)

\* hay.find(needle): the lowest index (from 0) where needle occurs, else -1
Find(hay, needle) == FindFrom(hay, needle, 0)

\* the index (from 0) of every character of an alphabet of distinct characters
IndexIn(alphabet) ==
    [c \in {SubSeq(alphabet, i, i) : i \in 1..Len(alphabet)} |->
        Find(alphabet, c)]

\* alphabet.find(c) for a single character c, index being IndexIn(alphabet)
FindChar(index, c) == IF c \in DOMAIN index THEN index[c] ELSE -1

\* needle in hay
Contains(hay, needle) == Find(hay, needle) >= 0

Upper == "ABCDEFGHIJKLMNOPQRSTUVWXYZ"

Lower == "abcdefghijklmnopqrstuvwxyz"

UpperIndex == IndexIn(Upper)

LowerIndex == IndexIn(Lower)

RECURSIVE lower(_)
\* str.lower()
lower(s) ==
    IF Len(s) = 0 THEN ""
    ELSE LET c == SubSeq(s, 1, 1)
             k == FindChar(UpperIndex, c)
         IN  (IF k >= 0 THEN SubSeq(Lower, k + 1, k + 1) ELSE c)
             \o lower(SubSeq(s, 2, Len(s)))

\* set(seq)
Range(seq) == {seq[i] : i \in DOMAIN seq}

-----------------------------------------------------------------------------
(* The process state the entry points work on, as one record *)

World ==
    [vm |-> tabula_vm, created |-> created, jvm |-> jvm,
     userList |-> userList, userPandas |-> userPandas,
     environ |-> environ, tmpfiles |-> tmpfiles]

NoVm ==
    [kind |-> "None", id |-> 0, ref |-> "own", java_options |-> <<>>,
     encoding |-> ""]

\* A Python list object: ref tells whether it is the list the caller holds
\* (every mutation of it is a mutation of userList) or a list made by the call.
OwnList(v) == [ref |-> "own", v |-> v]

\* list.extend(items) / list += items, in place
Extend(w, list, items) ==
    [list |-> [list EXCEPT !.v = @ \o items],
     w |-> IF list.ref = "user"
           THEN [w EXCEPT !.userList = @ \o items] ELSE w]

\* the java_options a SubprocessTabula holds in self.java_options
VmJavaOptions(w) ==
    IF w.vm.ref = "user" THEN w.userList ELSE w.vm.java_options

HEADLESS == "-Djava.awt.headless=true"

FILE_ENCODING == "-Dfile.encoding=UTF8"

SILENT_FLAGS ==
    <<"-Dorg.slf4j.simpleLogger.defaultLogLevel=off",
      "-Dorg.apache.commons.logging.Log=org.apache.commons.logging.impl.NoOpLog">>

\* `if set(java_options):` for `if set(java_options) - IGNORED_JAVA_OPTIONS:`
IGNORED_JAVA_OPTIONS_none == {}

IGNORED_JAVA_OPTIONS == {HEADLESS, FILE_ENCODING} \cup Range(SILENT_FLAGS)

TABULA_JAVA_VERSION == "1.0.5"

JAR_NAME == "tabula-" \o TABULA_JAVA_VERSION \o "-jar-with-dependencies.jar"

\* os.path.abspath(os.path.dirname(__file__)): where the package is installed
JAR_DIR == "/site-packages/tabula"

\* DEFAULT_CONFIG["JAR_PATH"]: os.path.join(JAR_DIR, JAR_NAME)
JAR_PATH == JAR_DIR \o "/" \o JAR_NAME

\* backend.jar_path: os.environ.get("TABULA_JAR", DEFAULT_CONFIG["JAR_PATH"])
jar_path(w) == IF w.environ = PyNone THEN JAR_PATH ELSE w.environ.val

\* io._build_java_options; java_options is "None", "user" (the list the
\* caller holds) or "literal" (a list written in the call, [HEADLESS])
_build_java_options(w, java_options, encoding) ==
    LET l0 == IF java_options = "None" THEN OwnList(<<>>)
              ELSE IF java_options = "literal" THEN OwnList(<<HEADLESS>>)
              ELSE [ref |-> "user", v |-> w.userList]
        \* any(filter("java.awt.headless".find, _java_options))
        anyFound == \E i \in DOMAIN l0.v :
                        /\ Find("java.awt.headless", l0.v[i]) # 0
                        /\ l0.v[i] # ""
        l1 == IF platform = "Darwin" /\ ~anyFound
              THEN OwnList(l0.v \o <<HEADLESS>>) ELSE l0
    IN  IF /\ encoding = "utf-8"
           /\ ~\E i \in DOMAIN l1.v : Contains(l1.v[i], "file.encoding")
        THEN Extend(w, l1, <<FILE_ENCODING>>)
        ELSE [list |-> l1, w |-> w]

NextId(w) == w.created.TabulaVm + w.created.SubprocessTabula + 1

\* backend.SubprocessTabula.__init__, and the store into _tabula_vm
SubprocessTabula(w, java_options, silent, encoding) ==
    LET e == IF Truthy(silent) THEN Extend(w, java_options, SILENT_FLAGS)
             ELSE [list |-> java_options, w |-> w]
    IN  [list |-> e.list,
         w |-> [e.w EXCEPT
                  !.vm = [kind |-> "SubprocessTabula", id |-> NextId(w),
                          ref |-> e.list.ref, java_options |-> e.list.v,
                          encoding |-> encoding],
                  !.created.SubprocessTabula = @ + 1]]

\* What the jpype side of TabulaVm.__init__ can do:
\*   no_jpype     import jpype fails (ImportError)
\*   start_error  jpype.startJVM raises
\*   no_classes   the JVM runs, importing the engine's classes fails (ImportError)
\*   load_error   the JVM runs, loading the classes raises something else
\*   ok           the JVM runs and the classes are loaded
JpypeOutcomes == {"no_jpype", "start_error", "no_classes", "load_error", "ok"}

\* if not jpype.isJVMStarted():
NeedsStart_always(j) == TRUE

NeedsStart(j) == ~j.started

\* backend.TabulaVm.__init__: raised is the exception that leaves __init__,
\* tabula tells whether self.tabula is set (None after an ImportError, which
\* is logged as a warning).
TabulaVm(w, java_options, silent, jp) ==
    LET w0 == [w EXCEPT !.created.TabulaVm = @ + 1]
        vm == [kind |-> "TabulaVm", id |-> NextId(w), ref |-> "own",
               java_options |-> <<>>, encoding |-> ""]
    IN  IF jp = "no_jpype"
        THEN [w |-> w0, list |-> java_options, vm |-> vm, tabula |-> FALSE,
              raised |-> "None", events |-> <<"warning: fallback">>]
        ELSE
        LET starting == NeedsStart(w.jvm)
            \* jpype.addClassPath(jar_path())
            wc == IF starting
                  THEN [w0 EXCEPT !.jvm.classpath = Append(@, jar_path(w))]
                  ELSE w0
            e == IF starting /\ Truthy(silent)
                 THEN Extend(wc, java_options, SILENT_FLAGS)
                 ELSE [list |-> java_options, w |-> wc]
            w1 == IF starting /\ jp # "start_error"
                  THEN [e.w EXCEPT !.jvm.started = TRUE,
                                   !.jvm.starts = @ + 1,
                                   !.jvm.options = e.list.v]
                  ELSE e.w
            ev == IF starting THEN <<"startJVM">> ELSE <<>>
        IN  IF starting /\ jp = "start_error"
            THEN [w |-> w1, list |-> e.list, vm |-> vm, tabula |-> FALSE,
                  raised |-> "JVMNotFoundException", events |-> ev]
            ELSE IF jp = "load_error"
            THEN [w |-> w1, list |-> e.list, vm |-> vm, tabula |-> FALSE,
                  raised |-> "JException", events |-> ev]
            ELSE IF jp = "no_classes"
            THEN [w |-> w1, list |-> e.list, vm |-> vm, tabula |-> FALSE,
                  raised |-> "None", events |-> ev \o <<"warning: fallback">>]
            ELSE [w |-> w1, list |-> e.list, vm |-> vm, tabula |-> TRUE,
                  raised |-> "None", events |-> ev]

-----------------------------------------------------------------------------
(* The engine (tabula-java) is opaque: what one invocation of it does is   *)
(* an input of the model.                                                  *)
\*   java_not_found  there is no java executable (child process only)
\*   error           the engine fails: non-zero exit status of the child,
\*                   a Java exception in the embedded runtime
\*   empty           the engine succeeds and writes nothing
\*   tables          the engine succeeds and writes its tables
\* and, for a child process, whose standard error is bytes to decode:
\*   error_native    as error, with a message in the platform's charset
\*   warned          as tables, with a message on standard error
\*   warned_native   as warned, with the message in the platform's charset
\* (the standard error of error is plain ASCII; that of empty and tables is
\* empty).
ChildOnly == {"java_not_found", "error_native", "warned", "warned_native"}

EngineOutcomes == {"error", "empty", "tables"} \cup ChildOnly

\* the encodings in which a sequence of bytes is valid text
Ascii == {"utf-8", "cp932"}

Native == {"cp932"}

\* result.stderr of the child process
StderrOf(eng) ==
    CASE eng \in {"error", "warned"} -> [empty |-> FALSE, charsets |-> Ascii]
      [] eng \in {"error_native", "warned_native"} ->
            [empty |-> FALSE, charsets |-> Native]
      [] OTHER -> [empty |-> TRUE, charsets |-> Ascii]

\* whether subprocess.run(..., check=True) raises CalledProcessError
NonZeroExit(eng) == eng \in {"error", "error_native"}

\* bytes.decode(encoding) returns; it raises UnicodeDecodeError otherwise
Decodes(bytes, encoding) == bytes.empty \/ encoding \in bytes.charsets

NoOutput == [empty |-> TRUE, raw |-> <<>>]

\* the pages and areas an argument list asks for: the values of its --pages
\* and --area options
RequestOf(args) ==
    LET at == {i \in 2..Len(args) : args[i - 1] \in {"--pages", "--area"}}
        pick[i \in 0..Len(args)] ==
            IF i = 0 THEN <<>>
            ELSE IF i \in at THEN Append(pick[i - 1], args[i])
            ELSE pick[i - 1]
    IN  pick[Len(args)]

\* The tables of a successful invocation, tagged with the request; the
\* second one has no data rows.
EngineOutput(args) ==
    [empty |-> FALSE,
     raw |-> <<[req |-> RequestOf(args), n |-> 1, rows |-> 2, width |-> 3],
               [req |-> RequestOf(args), n |-> 2, rows |-> 0, width |-> 0],
               [req |-> RequestOf(args), n |-> 3, rows |-> 1, width |-> 3]>>]

\* backend.TabulaVm.call_tabula_java
TabulaVm_call_tabula_java(w, options, path, eng) ==
    The({
        IF b.raised # "None"
        THEN [raised |-> b.raised, raisedAt |-> "build_option_list",
              output |-> NoOutput, events |-> <<"build_option_list">>,
              cmd |-> <<>>, tokens |-> <<>>, path |-> path,
              self |-> b.self]
        ELSE The({
            IF eng = "error"
            THEN [raised |-> "JException", raisedAt |-> "engine",
                  output |-> NoOutput,
                  events |-> <<"build_option_list", "engine">>,
                  cmd |-> args, tokens |-> b.tokens, path |-> path,
                  self |-> b.self]
            ELSE [raised |-> "None", raisedAt |-> "",
                  output |-> IF eng = "empty" THEN NoOutput
                             ELSE EngineOutput(args),
                  events |-> <<"build_option_list", "engine">>,
                  cmd |-> args, tokens |-> b.tokens, path |-> path,
                  self |-> b.self] :
            args \in {IF Truthy(path) THEN <<path.val>> \o b.tokens
                      ELSE b.tokens}}) :
        b \in {build_option_list(options)}})

\* backend.SubprocessTabula.call_tabula_java
SubprocessTabula_call_tabula_java(w, options, path, eng) ==
    The({
        IF b.raised # "None"
        THEN [raised |-> b.raised, raisedAt |-> "build_option_list",
              output |-> NoOutput, events |-> <<"build_option_list">>,
              cmd |-> <<>>, tokens |-> <<>>, path |-> path,
              self |-> b.self]
        ELSE The({
            IF eng = "java_not_found"
            THEN [raised |-> "JavaNotFoundError", raisedAt |-> "engine",
                  output |-> NoOutput, events |-> <<"build_option_list">>,
                  cmd |-> args, tokens |-> b.tokens, path |-> path,
                  self |-> b.self]
            ELSE IF ~Decodes(StderrOf(eng), w.vm.encoding)
            THEN \* result.stderr.decode / e.stderr.decode raises
                 [raised |-> "UnicodeDecodeError", raisedAt |-> "decode",
                  output |-> NoOutput,
                  events |-> <<"build_option_list", "spawn">>,
                  cmd |-> args, tokens |-> b.tokens, path |-> path,
                  self |-> b.self]
            ELSE IF NonZeroExit(eng)
            THEN [raised |-> "CalledProcessError", raisedAt |-> "engine",
                  output |-> NoOutput,
                  events |-> <<"build_option_list", "spawn", "error: stderr">>,
                  cmd |-> args, tokens |-> b.tokens, path |-> path,
                  self |-> b.self]
            ELSE [raised |-> "None", raisedAt |-> "",
                  output |-> IF eng = "empty" THEN NoOutput
                             ELSE EngineOutput(args),
                  events |-> <<"build_option_list", "spawn">>
                             \o (IF StderrOf(eng).empty THEN <<>>
                                 ELSE <<"warning: stderr">>),
                  cmd |-> args, tokens |-> b.tokens, path |-> path,
                  self |-> b.self] :
            args \in {<<"java">> \o VmJavaOptions(w) \o <<"-jar", jar_path(w)>>
                      \o b.tokens
                      \o (IF Truthy(path) THEN <<path.val>> ELSE <<>>)}}) :
        b \in {build_option_list(options)}})

\* _tabula_vm.call_tabula_java(options, path)
call_tabula_java(w, options, path, eng) ==
    IF w.vm.kind = "TabulaVm"
    THEN TabulaVm_call_tabula_java(w, options, path, eng)
    ELSE SubprocessTabula_call_tabula_java(w, options, path, eng)

Step(w, exc, at, events) ==
    [w |-> w, raised |-> exc, raisedAt |-> at, output |-> NoOutput,
     events |-> events, cmd |-> <<>>, tokens |-> <<>>, path |-> PyNone]

\* if not _tabula_vm:
MustConstruct_always(vm) == TRUE

\* `if not isinstance(_tabula_vm, TabulaVm):`
MustConstruct_unlessEmbedded(vm) == vm.kind # "TabulaVm"

MustConstruct(vm) == vm.kind = "None"

\* if _tabula_vm and not _tabula_vm.tabula:
NeedsFallback(t) == ~t.tabula

\* io._run, lines 67-84: the backend the call works with.  A
\* SubprocessTabula has no update_encoding method: line 80 raises
\* AttributeError.
SelectBackend(w, list, silent, encoding, force_subprocess, jp) ==
    LET fev == IF force_subprocess THEN <<"SubprocessTabula">> ELSE <<>>
    IN  The({
        IF MustConstruct(f.w.vm)
        THEN The({
             IF t.raised # "None"
             THEN Step(t.w, t.raised, "TabulaVm",
                         fev \o <<"TabulaVm">> \o t.events)
             ELSE IF NeedsFallback(t)
             THEN Step(SubprocessTabula(t.w, t.list, silent, encoding).w,
                       "None", "",
                       fev \o <<"TabulaVm">> \o t.events
                       \o <<"SubprocessTabula">>)
             ELSE Step([t.w EXCEPT !.vm = t.vm], "None", "",
                         fev \o <<"TabulaVm">> \o t.events) :
             t \in {TabulaVm(f.w, f.list, silent, jp)}})
        ELSE IF f.w.vm.kind = "SubprocessTabula"
        THEN Step(f.w, "AttributeError", "update_encoding", fev)
        ELSE IF Range(f.list.v) \ IGNORED_JAVA_OPTIONS # {}
        THEN Step(f.w, "None", "", fev \o <<"warning: java_options">>)
        ELSE Step(f.w, "None", "", fev) :
        f \in {IF force_subprocess
               THEN SubprocessTabula(w, list, silent, encoding)
               ELSE [list |-> list, w |-> w]}})

\* io._run
_run(w, options, java_options, path, encoding, force_subprocess, jp, eng) ==
    The({The({
        IF s.raised # "None" THEN s
        ELSE The({
             [w |-> s.w, raised |-> c.raised, raisedAt |-> c.raisedAt,
              output |-> c.output, events |-> s.events \o c.events,
              cmd |-> c.cmd, tokens |-> c.tokens, path |-> c.path] :
             c \in {call_tabula_java(s.w, options, path, eng)}}) :
        s \in {SelectBackend(b.w, b.list, options.silent, encoding,
                             force_subprocess, jp)}}) :
        b \in {_build_java_options(w, java_options, encoding)}})

-----------------------------------------------------------------------------
(* tabula/file_util.py *)

MAX_FILE_SIZE == 200

\* A source (path_or_buffer) is [kind, fname, ext, exists, size]: kind is
\* "path", "buffer" or "url"; fname and ext are os.path.splitext of the
\* path's or the URL's base name; exists and size describe the file or the
\* bytes behind it.
Min(a, b) == IF a < b THEN a ELSE b

\* file_util.localize_file
localize_file(w, src, suffix) ==
    LET uuid == "uuid" \o ToString(w.tmpfiles.made + 1) \o suffix
        fromUrl == SubSeq(src.fname, 1, Min(Len(src.fname), MAX_FILE_SIZE))
                   \o src.ext
        made(name, fresh) ==
            [w EXCEPT !.tmpfiles =
                [made |-> IF fresh THEN @.made + 1 ELSE @.made,
                 present |-> @.present \cup {name}]]
    IN  IF src.kind = "url"
        THEN IF src.ext # suffix
             THEN [path |-> uuid, temporary |-> TRUE, w |-> made(uuid, TRUE)]
             ELSE [path |-> fromUrl, temporary |-> TRUE,
                   w |-> made(fromUrl, FALSE)]
        ELSE IF src.kind = "buffer"
        THEN [path |-> uuid, temporary |-> TRUE, w |-> made(uuid, TRUE)]
        ELSE [path |-> src.fname \o src.ext, temporary |-> FALSE, w |-> w]

\* os.unlink(path)
unlink(w, path) == [w EXCEPT !.tmpfiles.present = @ \ {path}]

-----------------------------------------------------------------------------
(* tabula/io.py: the tables of the engine's JSON made into data frames.    *)
(* A raw table is a sequence of rows of cell texts.  A dict of pandas      *)
(* options is a record of its keys, Absent standing at a key it has not.   *)

Absent == [kind |-> "absent", val |-> FALSE]

\* np.nan
NaN == [kind |-> "nan", val |-> FALSE]

\* the pandas options read here; {} is NoPandasOptions
PandasKeys == {"header", "names", "columns", "encoding", "dtype"}

NoPandasOptions == [k \in PandasKeys |-> Absent]

\* dict.pop(key, default): the value, and the dict without the key
Pop(d, key, default) ==
    [value |-> IF d[key] = Absent THEN default ELSE d[key],
     dict |-> [d EXCEPT ![key] = Absent]]

\* dict.get(key)
Get(d, key) == IF d[key] = Absent THEN PyNone ELSE d[key]

\* lines 1080-1083: the row that holds the header, or None
HeaderLine(header, _columns) ==
    IF header = PyStr("infer")
    THEN (IF ~Truthy(_columns) THEN PyInt(0) ELSE PyNone)
    ELSE header

\* io._convert_pandas_csv_options
_convert_pandas_csv_options(pandas_options, columns) ==
    The({The({
        [columns |-> names.value,
         header_line_number |-> HeaderLine(header.value, names.value),
         pandas_options |-> Pop(header.dict, "encoding", PyNone).dict] :
        header \in {Pop(names.dict, "header", PyStr("infer"))}}) :
        names \in {Pop(pandas_options, "names", columns)}})

\* [np.nan if not e["text"] else e["text"] for e in row]
CellsOf(row) == [i \in DOMAIN row |-> IF row[i] = "" THEN NaN ELSE PyStr(row[i])]

\* the place list.pop(i) takes the item from in a list of n items, counted
\* from 0: a negative i counts from the end of the list
PopIndex(n, i) == IF i < 0 THEN n + i ELSE i

\* list.pop(i) raises IndexError: the list of n items has no such place
PopRaises(n, i) == PopIndex(n, i) \notin 0..(n - 1)

\* list.pop(i) for 0 <= i < len(list): the list without the item
Without(list, i) ==
    SubSeq(list, 1, i) \o SubSeq(list, i + 2, Len(list))

\* every empty cell gets the number 0
Unnamed_fixed(_columns) ==
    [i \in DOMAIN _columns |->
        IF _columns[i] = NaN THEN "Unnamed: 0" ELSE _columns[i].val]

\* lines 1029-1033: an empty header cell becomes "Unnamed: n", n counting
\* the empty cells before it; the others keep their text
Unnamed(_columns) ==
    [i \in DOMAIN _columns |->
        IF _columns[i] = NaN
        THEN "Unnamed: "
             \o ToString(Cardinality({j \in 1..(i - 1) : _columns[j] = NaN}))
        ELSE _columns[i].val]

\* counts: Dict[str, int] = defaultdict(int), as a set of (name, count)
CountOf(counts, col) ==
    IF \E c \in counts : c[1] = col
    THEN (CHOOSE c \in counts : c[1] = col)[2]
    ELSE 0

SetCount(counts, col, n) ==
    {c \in counts : c[1] # col} \cup {<<col, n>>}

RECURSIVE Suffixed(_, _, _)
\* lines 1041-1044: the while loop, from col with cur_count = counts[col]
Suffixed(col, cur_count, counts) ==
    IF cur_count > 0
    THEN The({The({
        Suffixed(next, CountOf(bumped, next), bumped) :
        bumped \in {SetCount(counts, col, cur_count + 1)}}) :
        next \in {col \o "." \o ToString(cur_count)}})
    ELSE [col |-> col, counts |-> SetCount(counts, col, cur_count + 1)]

\* the suffix counts the name's occurrences and looks at nothing else
Dedup_byCount(names) ==
    [i \in DOMAIN names |->
        LET k == Cardinality({j \in 1..(i - 1) : names[j] = names[i]})
        IN  IF k = 0 THEN names[i] ELSE names[i] \o "." \o ToString(k)]

RECURSIVE DedupFrom(_, _, _)
DedupFrom(names, idx, counts) ==
    IF idx > Len(names) THEN names
    ELSE The({
        DedupFrom([names EXCEPT ![idx] = d.col], idx + 1, d.counts) :
        d \in {Suffixed(names[idx], CountOf(counts, names[idx]), counts)}})

\* lines 1035-1047: no two columns get the same name
Dedup(names) == DedupFrom(names, 1, {})

\* a header row is taken whenever one is numbered
TakesHeader_anyway(header_line_number, columns) ==
    IsInt(header_line_number)

\* isinstance(header_line_number, int) and not columns
TakesHeader(header_line_number, columns) ==
    IsInt(header_line_number) /\ ~Truthy(columns)

\* the names taken from a table are given to the tables after it
NextColumns_taken(columns, _columns) == _columns

\* line 1025, _columns = columns: the names a table takes from its header
\* are its own, and columns is what the next table starts from
NextColumns(columns, _columns) == columns

Digits == "0123456789"

\* whether pd.to_numeric parses the text: the texts here are digits or not
IsNumber(text) ==
    /\ Len(text) > 0
    /\ \A i \in 1..Len(text) : Find(Digits, SubSeq(text, i, i)) >= 0

RECURSIVE NumberOf(_)
NumberOf(text) ==
    IF Len(text) = 0 THEN 0
    ELSE 10 * NumberOf(SubSeq(text, 1, Len(text) - 1))
         + Find(Digits, SubSeq(text, Len(text), Len(text)))

\* pd.DataFrame(data=list_data, columns=_columns): the labels are those
\* given, or 0, 1, ... when none are; ValueError when the data has another
\* number of columns than there are labels
DataFrame(list_data, _columns) ==
    IF _columns = PyNone
    THEN [raised |-> "None",
          columns |-> [i \in DOMAIN list_data[1] |-> PyInt(i - 1)],
          data |-> list_data]
    ELSE IF list_data # <<>> /\ Len(list_data[1]) # Len(_columns.val)
    THEN [raised |-> "ValueError", columns |-> <<>>, data |-> <<>>]
    ELSE [raised |-> "None",
          columns |-> [i \in DOMAIN _columns.val |-> PyStr(_columns.val[i])],
          data |-> list_data]

\* pd.to_numeric(df[c], errors="raise") for the i-th label c, or the column
\* as it is when that raises: ValueError when a cell is no number, TypeError
\* when df[c] is the frame of several columns labelled c.  Missing cells
\* stay missing and make the numbers floats.
ToNumeric(df, i) ==
    LET column == [r \in DOMAIN df.data |-> df.data[r][i]]
        several == \E j \in DOMAIN df.columns :
                       j # i /\ df.columns[j] = df.columns[i]
        parses == \A r \in DOMAIN column :
                      column[r] = NaN \/ IsNumber(column[r].val)
        kind == IF \E r \in DOMAIN column : column[r] = NaN
                THEN "float" ELSE "int"
    IN  IF several \/ ~parses THEN column
        ELSE [r \in DOMAIN column |->
                IF column[r] = NaN THEN NaN
                ELSE [kind |-> kind, val |-> NumberOf(column[r].val)]]

\* lines 1051-1058: the loop over df.columns
Coerced(df) ==
    [df EXCEPT !.data = [r \in DOMAIN df.data |->
                            [i \in DOMAIN df.columns |-> ToNumeric(df, i)[r]]]]

\* one turn of the loop over raw_json for a table with rows: the frame, and
\* columns as the turn leaves it
FrameOf(table, columns, header_line_number, pandas_options) ==
    The({
        IF TakesHeader(header_line_number, columns)
        THEN IF PopRaises(Len(list_data), IntOf(header_line_number))
             THEN [raised |-> "IndexError", columns |-> columns]
             ELSE The({The({The({
                 IF df.raised # "None"
                 THEN [raised |-> df.raised, columns |-> columns]
                 ELSE
                 [raised |-> "None",
                  df |-> IF Truthy(Get(pandas_options, "dtype")) THEN df
                         ELSE Coerced(df),
                  columns |-> NextColumns(columns, _columns)] :
                 df \in {DataFrame(Without(list_data, at), _columns)}}) :
                 _columns \in {PyList(Dedup(Unnamed(list_data[at + 1])))}}) :
                 at \in {PopIndex(Len(list_data),
                                  IntOf(header_line_number))}})
        ELSE The({
            IF df.raised # "None"
            THEN [raised |-> df.raised, columns |-> columns]
            ELSE [raised |-> "None",
                  df |-> IF Truthy(Get(pandas_options, "dtype")) THEN df
                         ELSE Coerced(df),
                  columns |-> columns] :
            df \in {DataFrame(list_data, columns)}}) :
        list_data \in {[r \in DOMAIN table |-> CellsOf(table[r])]}})

RECURSIVE FramesFrom(_, _, _, _, _)
\* lines 1017-1060: the loop over raw_json from its k-th table on
FramesFrom(raw_json, k, columns, header_line_number, pandas_options) ==
    IF k > Len(raw_json) THEN [raised |-> "None", data_frames |-> <<>>]
    ELSE IF Len(raw_json[k]) = 0
    THEN FramesFrom(raw_json, k + 1, columns, header_line_number,
                    pandas_options)
    ELSE The({
        IF f.raised # "None"
        THEN [raised |-> f.raised, data_frames |-> <<>>]
        ELSE The({
            IF rest.raised # "None" THEN rest
            ELSE [raised |-> "None",
                  data_frames |-> <<f.df>> \o rest.data_frames] :
            rest \in {FramesFrom(raw_json, k + 1, f.columns,
                                 header_line_number, pandas_options)}}) :
        f \in {FrameOf(raw_json[k], columns, header_line_number,
                       pandas_options)}})

\* io._extract_from; pandas_options is the dict as the call leaves it
_extract_from(raw_json, pandas_options) ==
    The({The({The({
        [raised |-> frames.raised, data_frames |-> frames.data_frames,
         pandas_options |-> c.pandas_options] :
        frames \in {FramesFrom(raw_json, 1, c.columns, c.header_line_number,
                               c.pandas_options)}}) :
        c \in {_convert_pandas_csv_options(columns.dict, columns.value)}}) :
        columns \in {Pop(IF pandas_options = PyNone THEN NoPandasOptions
                         ELSE pandas_options, "columns", PyNone)}})

-----------------------------------------------------------------------------
(* tabula/io.py: the entry points.  Each returns the process state it      *)
(* leaves, the exception it raises ("None" when it returns), where the     *)
(* exception arose, the value returned, and what it did, in order.         *)

\* no call of call_tabula_java
NoRun == [cmd |-> <<>>, tokens |-> <<>>, path |-> PyNone]

\* run holds the arguments of call_tabula_java: the option tokens, the path
\* and the command line made of them
Done(w, exc, at, result, events, run) ==
    [w |-> w, raised |-> exc, raisedAt |-> at, result |-> result,
     events |-> events, cmd |-> run.cmd, tokens |-> run.tokens,
     path |-> run.path, runs |-> <<>>]

\* The pandas_options argument of a call: the dict object the caller holds
\* (every mutation of it is a mutation of userPandas), a dict written in the
\* call ("literal", {"header": 1}), or the {} that read_pdf makes of None.
PandasOptionsOf(w, pandas_options) ==
    IF pandas_options = "None" THEN [ref |-> "own", v |-> NoPandasOptions]
    ELSE IF pandas_options = "literal"
    THEN [ref |-> "own", v |-> [NoPandasOptions EXCEPT !.header = PyInt(1)]]
    ELSE [ref |-> "user", v |-> w.userPandas]

\* `_pandas_options = pandas_options` for deepcopy(pandas_options)
deepcopy_alias(pandas_options) == pandas_options

\* deepcopy(pandas_options): a dict object of the call's own
deepcopy(pandas_options) == [ref |-> "own", v |-> pandas_options.v]

\* the process after the dict object d has come to hold v
Mutated(w, d, v) == IF d.ref = "user" THEN [w EXCEPT !.userPandas = v] ELSE w

\* what one turn of the loop of _extract_from raises for a table of
\* table.rows rows of table.width cells: IndexError of list_data.pop when
\* the table has no row of the header's number, ValueError of pd.DataFrame
\* when the names given are not as many as the cells of a row
FrameRaises(table, columns, header_line_number) ==
    IF TakesHeader(header_line_number, columns)
    THEN (IF PopRaises(table.rows, IntOf(header_line_number))
          THEN "IndexError" ELSE "None")
    ELSE IF Truthy(columns) /\ Len(columns.val) # table.width
    THEN "ValueError"
    ELSE "None"

\* io._extract_from, as far as the list of tables goes: a table without
\* data rows is skipped, and every frame is made with the column names and
\* the header line that the options popped from the dict give; the first
\* table that raises ends the call
DataFramesOf(raw_json, pandas_options) ==
    The({The({
        LET kept == SelectSeq(raw_json, LAMBDA t : t.rows # 0)
            bad == {i \in DOMAIN kept :
                       FrameRaises(kept[i], c.columns,
                                   c.header_line_number) # "None"}
        IN  IF bad # {}
            THEN [raised |-> FrameRaises(
                                 kept[CHOOSE i \in bad : \A j \in bad : i <= j],
                                 c.columns, c.header_line_number),
                  data_frames |-> <<>>,
                  pandas_options |-> c.pandas_options]
            ELSE
            [raised |-> "None",
             data_frames |->
                [i \in DOMAIN kept |->
                    [req |-> kept[i].req, n |-> kept[i].n,
                     columns |-> c.columns,
                     header |-> c.header_line_number]],
             pandas_options |-> c.pandas_options] :
        c \in {_convert_pandas_csv_options(columns.dict, columns.value)}}) :
        columns \in {Pop(pandas_options, "columns", PyNone)}})

\* `False` for `len(output) == 0`: the output goes to the parser as it is
EmptyOutput_never(output) == FALSE

\* len(output) == 0
EmptyOutput(output) == output.empty

\* json.loads(output): the empty string is no JSON document
json_loads(output) ==
    IF output.empty THEN [raised |-> "JSONDecodeError", value |-> <<>>]
    ELSE [raised |-> "None", value |-> output.raw]

\* pd.read_csv(io.StringIO(output)): one frame of all the rows; the empty
\* string has no columns to parse
read_csv(output, req, pandas_options) ==
    IF output.empty THEN [raised |-> "EmptyDataError", value |-> <<>>]
    ELSE [raised |-> "None",
          value |-> [req |-> req, n |-> 0,
                     columns |-> Get(pandas_options, "names"),
                     header |-> IF pandas_options["header"] = Absent
                                THEN PyStr("infer")
                                ELSE pandas_options["header"]]]

\* the try/finally around _run in read_pdf and convert_into
RunAndCleanUp(w, options, java_options, loc, encoding, force, jp, eng) ==
    The({
        IF loc.temporary
        THEN [r EXCEPT !.w = unlink(r.w, loc.path),
                       !.events = @ \o <<"unlink">>]
        ELSE r :
        r \in {_run(w, options, java_options, PyStr(loc.path), encoding,
                    force, jp, eng)}})

\* io.read_pdf; a.kw holds the extraction keywords as a TabulaOption record
read_pdf(w, a, jp, eng) ==
    LET given == Truthy(a.output_format)
        fmt0 == IF given THEN lower(a.output_format.val) ELSE ""
        multiple_tables == IF given THEN FALSE ELSE Truthy(a.multiple_tables)
        format == IF multiple_tables \/ (given /\ fmt0 = "json")
                  THEN PyStr("JSON") ELSE PyNone
        tabula_options == [a.kw EXCEPT !.format = format,
                                       !.multiple_tables =
                                           PyBool(multiple_tables)]
    IN  IF given /\ fmt0 \notin {"dataframe", "json"}
        THEN Done(w, "ValueError", "output_format", <<>>, <<>>, NoRun)
        ELSE The({
        LET ev0 == IF loc.temporary THEN <<"localize">> ELSE <<>>
        IN  IF ~(loc.temporary \/ a.input.exists)
        THEN Done(loc.w, "FileNotFoundError", "exists", <<>>, ev0, NoRun)
        ELSE IF a.input.size = 0
        THEN Done(loc.w, "ValueError", "getsize", <<>>, ev0, NoRun)
        ELSE The({
            IF r.raised # "None"
            THEN Done(r.w, r.raised, r.raisedAt, <<>>, ev0 \o r.events, r)
            ELSE IF EmptyOutput(r.output)
            THEN Done(r.w, "None", "", <<>>,
                      ev0 \o r.events \o <<"warning: empty">>, r)
            ELSE The({
            IF format = PyStr("JSON")
            THEN The({
                IF raw_json.raised # "None"
                THEN Done(r.w, raw_json.raised, "json.loads", <<>>,
                          ev0 \o r.events, r)
                ELSE IF multiple_tables
                THEN The({
                    Done(Mutated(r.w, _pandas_options, e.pandas_options),
                         e.raised,
                         IF e.raised = "None" THEN "" ELSE "_extract_from",
                         e.data_frames, ev0 \o r.events, r) :
                    e \in {DataFramesOf(raw_json.value, _pandas_options.v)}})
                ELSE Done(r.w, "None", "", raw_json.value,
                          ev0 \o r.events, r) :
                raw_json \in {json_loads(r.output)}})
            ELSE The({The({
                IF df.raised # "None"
                THEN Done(w1, df.raised, "read_csv", <<>>,
                          ev0 \o r.events, r)
                ELSE Done(w1, "None", "", <<df.value>>, ev0 \o r.events, r) :
                df \in {read_csv(r.output, RequestOf(r.cmd), opts)},
                w1 \in {Mutated(r.w, _pandas_options, opts)}}) :
                opts \in {[_pandas_options.v EXCEPT !.encoding =
                              IF @ = Absent THEN PyStr(a.encoding) ELSE @]}}) :
            _pandas_options \in
                {deepcopy(PandasOptionsOf(r.w, a.pandas_options))}}) :
            r \in {RunAndCleanUp(loc.w, tabula_options, a.java_options, loc,
                                 a.encoding, a.force_subprocess, jp, eng)}}) :
        loc \in {localize_file(w, a.input, ".pdf")}})

\* `self.x if self.x is not None else other.x` for `self.x or other.x`
Or_unlessNone(x, y) == IF x # PyNone THEN x ELSE y

\* TabulaOption.merge: self.x or other.x, field by field
Or(x, y) == IF Truthy(x) THEN x ELSE y

merge(self, other) ==
    [f \in DOMAIN self |-> Or(self[f], other[f])]

-----------------------------------------------------------------------------
(* tabula/template.py *)

RECURSIVE StrLess(_, _)
\* a < b for strings of lower-case letters
StrLess(a, b) ==
    IF Len(b) = 0 THEN FALSE
    ELSE IF Len(a) = 0 THEN TRUE
    ELSE IF SubSeq(a, 1, 1) # SubSeq(b, 1, 1)
    THEN FindChar(LowerIndex, SubSeq(a, 1, 1))
            < FindChar(LowerIndex, SubSeq(b, 1, 1))
    ELSE StrLess(SubSeq(a, 2, Len(a)), SubSeq(b, 2, Len(b)))

\* a key of the page alone
KeyLess_pageOnly(a, b) == a.page < b.page

\* itemgetter("page", "extraction_method")(a) < itemgetter(...)(b)
KeyLess(a, b) ==
    \/ a.page < b.page
    \/ a.page = b.page /\ StrLess(a.extraction_method, b.extraction_method)

SameKey(a, b) ==
    a.page = b.page /\ a.extraction_method = b.extraction_method

RECURSIVE InsertByKey(_, _)
InsertByKey(x, s) ==
    IF Len(s) = 0 THEN <<x>>
    ELSE IF KeyLess(x, Head(s)) THEN <<x>> \o s
    ELSE <<Head(s)>> \o InsertByKey(x, Tail(s))

\* templates as given, for sorted(templates, key=grouper)
SortedByKey_asGiven(s) == s

RECURSIVE SortedByKey(_)
\* sorted(templates, key=grouper): stable
SortedByKey(s) ==
    IF Len(s) = 0 THEN <<>>
    ELSE InsertByKey(s[Len(s)], SortedByKey(SubSeq(s, 1, Len(s) - 1)))

RECURSIVE GroupBy(_)
\* itertools.groupby: runs of consecutive elements with equal keys
GroupBy(s) ==
    IF Len(s) = 0 THEN <<>>
    ELSE LET rest == GroupBy(Tail(s)) IN
         IF Len(rest) > 0 /\ SameKey(Head(s), rest[1][1])
         THEN <<(<<Head(s)>> \o rest[1])>> \o Tail(rest)
         ELSE <<(<<Head(s)>>)>> \o rest

\* round(x, 3) of an integer coordinate
round3(x) == x

\* template._convert_template_option
_convert_template_option(template) ==
    [DefaultOption EXCEPT
        !.guess = PyBool(template.extraction_method = "guess"),
        !.lattice = PyBool(template.extraction_method = "lattice"),
        !.stream = PyBool(template.extraction_method = "stream"),
        !.pages = PyInt(template.page),
        !.area = IntList(<<round3(template.y1), round3(template.x1),
                           round3(template.y2), round3(template.x2)>>)]

\* template.load_template, lines 31-48, for the parsed list of regions
OptionsOfTemplate(templates) ==
    LET groups == GroupBy(SortedByKey(templates))
        group(g) ==
            LET tmp_options == [i \in DOMAIN g |->
                                    _convert_template_option(g[i])]
            IN  IF Len(tmp_options) = 1 THEN tmp_options[1]
                ELSE [tmp_options[1] EXCEPT
                        !.area = PyList([i \in DOMAIN tmp_options |->
                                            tmp_options[i].area]),
                        !.multiple_tables = PyBool(TRUE)]
    IN  [k \in DOMAIN groups |-> group(groups[k])]

\* template.load_template: content is [json, regions]; json tells whether
\* the file holds a JSON document
load_template(content) ==
    IF ~content.json
    THEN [raised |-> "JSONDecodeError", options |-> <<>>]
    ELSE [raised |-> "None", options |-> OptionsOfTemplate(content.regions)]

-----------------------------------------------------------------------------
(* tabula/io.py: read_pdf_with_template, convert_into,                     *)
(* convert_into_by_batch                                                   *)

\* dataframes.extend(_df)
Collect_front(dataframes, _df) == _df \o dataframes

Collect(dataframes, _df) == dataframes \o _df

RECURSIVE TemplateLoop(_, _, _, _, _, _, _)
\* for option in _options: _df = read_pdf(...); dataframes.extend(_df)
\* acc is [w, raised, raisedAt, result, events, cmd, runs]
TemplateLoop(a, _force_option, _options, k, jp, engs, acc) ==
    IF k > Len(_options) THEN acc
    ELSE
    The({The({The({
        IF r.raised # "None" THEN next
        ELSE TemplateLoop(a, _force_option, _options, k + 1, jp, engs, next) :
        next \in {[w |-> r.w, raised |-> r.raised, raisedAt |-> r.raisedAt,
                   result |-> IF r.raised = "None"
                              THEN Collect(acc.result, r.result) ELSE <<>>,
                   events |-> acc.events \o r.events, cmd |-> r.cmd,
                   tokens |-> r.tokens, path |-> r.path,
                   runs |-> Append(acc.runs,
                                   [option |-> _options[k],
                                    raised |-> r.raised,
                                    raisedAt |-> r.raisedAt,
                                    result |-> r.result, cmd |-> r.cmd])]}}) :
        r \in {read_pdf(acc.w,
                        [input |-> a.input, output_format |-> PyNone,
                         pandas_options |-> a.pandas_options,
                         encoding |-> a.encoding,
                         java_options |-> a.java_options,
                         multiple_tables |-> merged.multiple_tables,
                         force_subprocess |-> a.force_subprocess,
                         kw |-> merged],
                        jp, engs[k])}}) :
        merged \in {merge(_force_option, _options[k])}})

\* io.read_pdf_with_template; a.content is what the template source holds
read_pdf_with_template(w, a, jp, engs) ==
    The({The({
        LET ev0 == IF loc.temporary THEN <<"localize">> ELSE <<>>
            start == [w |-> loc.w, raised |-> "None", raisedAt |-> "",
                      result |-> <<>>, events |-> ev0, cmd |-> <<>>,
                      tokens |-> <<>>, path |-> PyNone,
                      runs |-> <<>>]
            _force_option == [a.kw EXCEPT !.multiple_tables = PyBool(TRUE)]
        IN  IF t.raised # "None"
            THEN [start EXCEPT !.raised = t.raised,
                               !.raisedAt = "load_template"]
            ELSE The({
                IF loc.temporary
                THEN [r EXCEPT !.w = unlink(r.w, loc.path),
                               !.events = @ \o <<"unlink">>]
                ELSE r :
                r \in {TemplateLoop(a, _force_option, t.options, 1, jp, engs,
                                    start)}}) :
        t \in {load_template(a.content)}}) :
        loc \in {localize_file(w, a.template, ".json")}})

\* a format that is not known is taken for csv
_extract_format_for_conversion_lenient(output_format) ==
    LET f == lower(output_format) IN
    IF f = "json" THEN [raised |-> "None", format |-> "JSON"]
    ELSE IF f = "tsv" THEN [raised |-> "None", format |-> "TSV"]
    ELSE [raised |-> "None", format |-> "CSV"]

\* io._extract_format_for_conversion
_extract_format_for_conversion(output_format) ==
    LET f == lower(output_format) IN
    IF f = "csv" THEN [raised |-> "None", format |-> "CSV"]
    ELSE IF f = "json" THEN [raised |-> "None", format |-> "JSON"]
    ELSE IF f = "tsv" THEN [raised |-> "None", format |-> "TSV"]
    ELSE [raised |-> "ValueError", format |-> ""]

\* io.convert_into
convert_into(w, a, jp, eng) ==
    LET f == _extract_format_for_conversion(a.output_format)
        tabula_options == [a.kw EXCEPT !.format = PyStr(f.format),
                                       !.output_path = a.output_path,
                                       !.multiple_tables = PyBool(TRUE)]
    IN  IF a.output_path = PyNone \/ Len(a.output_path.val) = 0
        THEN Done(w, "ValueError", "output_path", <<>>, <<>>, NoRun)
        ELSE IF f.raised # "None"
        THEN Done(w, f.raised, "output_format", <<>>, <<>>, NoRun)
        ELSE The({
        LET ev0 == IF loc.temporary THEN <<"localize">> ELSE <<>>
        IN  IF ~(loc.temporary \/ a.input.exists)
        THEN Done(loc.w, "FileNotFoundError", "exists", <<>>, ev0, NoRun)
        ELSE IF a.input.size = 0
        THEN Done(loc.w, "ValueError", "getsize", <<>>, ev0, NoRun)
        ELSE The({
            Done(r.w, r.raised, r.raisedAt, <<>>, ev0 \o r.events, r) :
            r \in {RunAndCleanUp(loc.w, tabula_options, a.java_options, loc,
                                 "utf-8", a.force_subprocess, jp, eng)}}) :
        loc \in {localize_file(w, a.input, ".pdf")}})

\* io.convert_into_by_batch; a.input_dir is [path, isdir]
convert_into_by_batch(w, a, jp, eng) ==
    LET f == _extract_format_for_conversion(a.output_format)
        tabula_options == [a.kw EXCEPT !.format = PyStr(f.format),
                                       !.batch = a.input_dir.path,
                                       !.multiple_tables = PyBool(TRUE)]
    IN  IF a.input_dir.path = PyNone \/ ~a.input_dir.isdir
        THEN Done(w, "ValueError", "input_dir", <<>>, <<>>, NoRun)
        ELSE IF f.raised # "None"
        THEN Done(w, f.raised, "output_format", <<>>, <<>>, NoRun)
        ELSE The({
            Done(r.w, r.raised, r.raisedAt, <<>>, r.events, r) :
            r \in {_run(w, tabula_options, a.java_options, PyNone, "utf-8",
                        a.force_subprocess, jp, eng)}})

-----------------------------------------------------------------------------
(* The calls a process makes *)

\* number of entry-point calls in a run of the process
MaxCalls == 2

PathOk == [kind |-> "path", fname |-> "data", ext |-> ".pdf",
           exists |-> TRUE, size |-> 1]

PathMissing == [PathOk EXCEPT !.fname = "nofile", !.exists = FALSE,
                              !.size = 0]

BufferOk == [kind |-> "buffer", fname |-> "", ext |-> "", exists |-> TRUE,
             size |-> 1]

BufferEmpty == [BufferOk EXCEPT !.size = 0]

UrlOk == [kind |-> "url", fname |-> "remote", ext |-> ".pdf",
          exists |-> TRUE, size |-> 1]

PdfSources == {PathOk, PathMissing, BufferOk, BufferEmpty, UrlOk}

TemplatePath == [kind |-> "path", fname |-> "t", ext |-> ".json",
                 exists |-> TRUE, size |-> 1]

TemplateSources == {TemplatePath, BufferOk}

Region(page, method, y1) ==
    [page |-> page, extraction_method |-> method,
     x1 |-> 0, y1 |-> y1, x2 |-> 50, y2 |-> y1 + 10]

\* a template of one region: one option, one invocation of read_pdf
OneRegion == [json |-> TRUE, regions |-> <<Region(1, "guess", 0)>>]

\* a template of three regions on two pages: two options, the two regions of
\* page 1 in one of them
TwoPages ==
    [json |-> TRUE,
     regions |-> <<Region(2, "stream", 0), Region(1, "lattice", 20),
                   Region(1, "lattice", 0)>>]

\* what a template source can hold
TemplateContents == {[json |-> FALSE, regions |-> <<>>], OneRegion, TwoPages}

Plain == [DefaultOption EXCEPT !.pages = PyInt(1)]

Keywords ==
    {Plain,
     [Plain EXCEPT !.silent = PyBool(TRUE)],
     [Plain EXCEPT !.area = RBad]}

MultipleTables == [output_format |-> PyNone, multiple_tables |-> PyBool(TRUE)]

OutputModes ==
    {MultipleTables,
     [output_format |-> PyNone, multiple_tables |-> PyBool(FALSE)],
     [output_format |-> PyStr("JSON"), multiple_tables |-> PyBool(TRUE)],
     [output_format |-> PyStr("json"), multiple_tables |-> PyBool(FALSE)],
     [output_format |-> PyStr("dataframe"), multiple_tables |-> PyBool(FALSE)],
     [output_format |-> PyStr("xml"), multiple_tables |-> PyBool(TRUE)]}

\* The calls of read_pdf the process makes: an ordinary call, and the calls
\* that differ from it in the source, in the output mode, in the keywords
\* or in the settings; java_options is None or the list the caller holds.
ReadPdfCall ==
    [input |-> PathOk, mode |-> MultipleTables, kw |-> Plain,
     encoding |-> "utf-8", java_options |-> "None",
     pandas_options |-> "None"]

ReadPdfCalls ==
    {[ReadPdfCall EXCEPT !.input = i] : i \in PdfSources}
    \cup {[ReadPdfCall EXCEPT !.mode = m] : m \in OutputModes}
    \cup {[ReadPdfCall EXCEPT !.kw = k] : k \in Keywords}
    \cup {[ReadPdfCall EXCEPT !.input = BufferOk, !.kw.area = RBad],
          [ReadPdfCall EXCEPT !.encoding = "cp932"],
          [ReadPdfCall EXCEPT !.java_options = "user"],
          [ReadPdfCall EXCEPT !.java_options = "literal"],
          [ReadPdfCall EXCEPT !.pandas_options = "literal"],
          [ReadPdfCall EXCEPT !.pandas_options = "user",
                              !.mode = [output_format |-> PyNone,
                                        multiple_tables |-> PyBool(FALSE)]],
          [ReadPdfCall EXCEPT !.java_options = "user",
                              !.kw.silent = PyBool(TRUE)]}

ConvertIntoCall ==
    [input |-> PathOk, output_path |-> PyStr("out.csv"),
     output_format |-> "csv", java_options |-> "None", kw |-> Plain]

ConvertIntoCalls ==
    {[ConvertIntoCall EXCEPT !.input = i] :
        i \in {PathOk, BufferOk, BufferEmpty}}
    \cup {[ConvertIntoCall EXCEPT !.output_path = PyNone],
          [ConvertIntoCall EXCEPT !.input = BufferOk,
                                  !.output_path = PyStr("")],
          [ConvertIntoCall EXCEPT !.input = BufferOk,
                                  !.output_format = "xml"],
          [ConvertIntoCall EXCEPT !.output_format = "xml"],
          [ConvertIntoCall EXCEPT !.input = BufferOk, !.kw.area = RBad]}

ConvertIntoByBatchCall ==
    [input_dir |-> [path |-> PyStr("pdfs"), isdir |-> TRUE],
     output_format |-> "TSV", java_options |-> "None", kw |-> Plain]

ConvertIntoByBatchCalls ==
    {ConvertIntoByBatchCall,
     [ConvertIntoByBatchCall EXCEPT
        !.input_dir = [path |-> PyStr("nodir"), isdir |-> FALSE]],
     [ConvertIntoByBatchCall EXCEPT
        !.input_dir = [path |-> PyNone, isdir |-> FALSE]],
     [ConvertIntoByBatchCall EXCEPT !.output_format = "xml"]}

Malformed == [json |-> FALSE, regions |-> <<>>]

ReadPdfWithTemplateCall ==
    [input |-> PathOk, template |-> TemplatePath, content |-> OneRegion,
     kw |-> DefaultOption, encoding |-> "utf-8", java_options |-> "None",
     pandas_options |-> "None"]

ReadPdfWithTemplateCalls ==
    {[ReadPdfWithTemplateCall EXCEPT !.input = BufferOk],
     [ReadPdfWithTemplateCall EXCEPT !.template = BufferOk]}
    \cup {[ReadPdfWithTemplateCall EXCEPT !.content = c] :
            c \in TemplateContents}
    \cup {[ReadPdfWithTemplateCall EXCEPT !.input = BufferOk,
                                          !.template = BufferOk,
                                          !.content = Malformed],
          [ReadPdfWithTemplateCall EXCEPT !.content = TwoPages,
                                          !.pandas_options = "user"]}

\* The outcomes of jpype the process allows in a call that may construct a
\* TabulaVm: jpype was imported and the JVM runs once it has been started.
JpChoices(force_subprocess) ==
    IF force_subprocess \/ tabula_vm.kind # "None" THEN {"ok"}
    ELSE IF jvm.started THEN {"no_classes", "load_error", "ok"}
    ELSE JpypeOutcomes

\* The outcomes of the engine the process allows in an invocation with the
\* command line cmd: none to choose when there is no invocation, and those
\* of a child process only for a child process.
EngChoices(cmd) ==
    IF cmd = <<>> THEN {"tables"}
    ELSE IF cmd[1] = "java" THEN EngineOutcomes
    ELSE EngineOutcomes \ ChildOnly

RECURSIVE EngSeqsFrom(_, _, _)
\* the outcomes of the engine in the invocations k..n of one template call
EngSeqsFrom(runs, n, k) ==
    IF k > n THEN {<<>>}
    ELSE UNION {
        IF e \in {"java_not_found", "error", "error_native"}
        THEN {<<e>> \o [j \in 1..(n - k) |-> "tables"]}
        ELSE {<<e>> \o rest : rest \in EngSeqsFrom(runs, n, k + 1)} :
        e \in EngChoices(IF k <= Len(runs) THEN runs[k].cmd ELSE <<>>)}

\* The outcomes of the engine over the n invocations of one template call,
\* runs being the invocations made when every one of them succeeds: there is
\* no invocation after one that fails.
EngSeqChoices(runs, n) == EngSeqsFrom(runs, n, 1)

\* An outcome other than the ordinary one is an outcome of something the
\* call got to: of jpype when a TabulaVm was constructed, of the engine
\* when it was invoked with the command line cmd (the embedded runtime
\* needs no java executable and has no standard error).
ReachedJpype(events, jp) ==
    jp # "ok" => "TabulaVm" \in Range(events)

ReachedEngine(cmd, eng) ==
    /\ eng # "tables" => cmd # <<>>
    /\ eng \in ChildOnly => cmd[1] = "java"

NoCall ==
    [op |-> "none", force |-> FALSE, silent |-> FALSE, encoding |-> "",
     java_options |-> "None", pandas_options |-> "None", vm0 |-> "None",
     tmpInput |-> FALSE,
     tmpTemplate |-> FALSE, raised |-> "None", raisedAt |-> "",
     events |-> <<>>, result |-> <<>>, plan |-> <<>>, runs |-> <<>>,
     cmd |-> <<>>, tokens |-> <<>>, path |-> PyNone, eng |-> "none",
     jp |-> "ok",
     given |-> [output_format |-> PyNone, output_path |-> PyNone,
                input_dir |-> [path |-> PyNone, isdir |-> FALSE]]]

\* The call returns or raises: the process state it leaves, and its record.
Commit(r, record) ==
    /\ tabula_vm' = r.w.vm
    /\ created' = r.w.created
    /\ jvm' = r.w.jvm
    /\ userList' = r.w.userList
    /\ userPandas' = r.w.userPandas
    /\ environ' = r.w.environ
    /\ tmpfiles' = r.w.tmpfiles
    /\ calls' = calls + 1
    /\ last' = [record EXCEPT
                  !.vm0 = tabula_vm.kind, !.raised = r.raised,
                  !.raisedAt = r.raisedAt, !.events = r.events,
                  !.result = r.result, !.cmd = r.cmd,
                  !.tokens = r.tokens, !.path = r.path,
                  !.runs = [k \in DOMAIN r.runs |->
                              [raised |-> r.runs[k].raised,
                               raisedAt |-> r.runs[k].raisedAt,
                               req |-> RequestOf(r.runs[k].cmd),
                               result |-> r.runs[k].result]]]
    /\ UNCHANGED <<platform, opt, res, arg, ret>>

ReadPdf ==
    /\ calls < MaxCalls
    /\ \E c \in ReadPdfCalls : \E force_subprocess \in BOOLEAN :
        \E jp \in JpChoices(force_subprocess) :
        \E a \in {[input |-> c.input,
                   output_format |-> c.mode.output_format,
                   pandas_options |-> c.pandas_options,
                   encoding |-> c.encoding,
                   java_options |-> c.java_options,
                   multiple_tables |-> c.mode.multiple_tables,
                   force_subprocess |-> force_subprocess,
                   kw |-> c.kw]} :
        \E r0 \in {read_pdf(World, a, jp, "tables")} :
        \E eng \in EngChoices(r0.cmd) :
        \E r \in {IF eng = "tables" THEN r0
                  ELSE read_pdf(World, a, jp, eng)} :
            /\ ReachedJpype(r.events, jp)
            /\ ReachedEngine(r.cmd, eng)
            /\ Commit(r, [NoCall EXCEPT
                            !.eng = eng, !.jp = jp, !.op = "read_pdf",
                            !.given.output_format = c.mode.output_format,
                            !.force = force_subprocess,
                            !.silent = Truthy(c.kw.silent),
                            !.encoding = c.encoding,
                            !.java_options = c.java_options,
                            !.pandas_options = c.pandas_options,
                            !.tmpInput = (c.input.kind # "path")])

\* engs[k] is the outcome of the engine in the k-th invocation of the call
ReadPdfWithTemplate ==
    /\ calls < MaxCalls
    /\ \E c \in ReadPdfWithTemplateCalls : \E force_subprocess \in BOOLEAN :
        \E plan \in {load_template(c.content).options} :
        \E jp \in JpChoices(force_subprocess) :
        \E a \in {[input |-> c.input, template |-> c.template,
                   content |-> c.content, encoding |-> c.encoding,
                   pandas_options |-> c.pandas_options,
                   java_options |-> c.java_options,
                   force_subprocess |-> force_subprocess,
                   kw |-> c.kw]} :
        \E r0 \in {read_pdf_with_template(World, a, jp,
                       [k \in 1..Len(plan) |-> "tables"])} :
        \E engs \in EngSeqChoices(r0.runs, Len(plan)) :
        \E r \in {IF \A k \in DOMAIN engs : engs[k] = "tables" THEN r0
                  ELSE read_pdf_with_template(World, a, jp, engs)} :
            /\ ReachedJpype(r.events, jp)
            /\ \A k \in DOMAIN engs :
                    IF k <= Len(r.runs)
                    THEN ReachedEngine(r.runs[k].cmd, engs[k])
                    ELSE engs[k] = "tables"
            /\ Commit(r, [NoCall EXCEPT
                            !.jp = jp,
                            !.eng = IF r.runs = <<>> THEN "tables"
                                    ELSE engs[Len(r.runs)],
                            !.op = "read_pdf_with_template",
                            !.force = force_subprocess,
                            !.silent = Truthy(c.kw.silent),
                            !.encoding = c.encoding,
                            !.java_options = c.java_options,
                            !.pandas_options = c.pandas_options,
                            !.tmpInput = (c.input.kind # "path"),
                            !.tmpTemplate = (c.template.kind # "path"),
                            !.plan = plan])

ConvertInto ==
    /\ calls < MaxCalls
    /\ \E c \in ConvertIntoCalls : \E force_subprocess \in BOOLEAN :
        \E jp \in JpChoices(force_subprocess) :
        \E a \in {[input |-> c.input, output_path |-> c.output_path,
                   output_format |-> c.output_format,
                   java_options |-> c.java_options,
                   force_subprocess |-> force_subprocess,
                   kw |-> c.kw]} :
        \E r0 \in {convert_into(World, a, jp, "tables")} :
        \E eng \in EngChoices(r0.cmd) :
        \E r \in {IF eng = "tables" THEN r0
                  ELSE convert_into(World, a, jp, eng)} :
            /\ ReachedJpype(r.events, jp)
            /\ ReachedEngine(r.cmd, eng)
            /\ Commit(r, [NoCall EXCEPT
                            !.eng = eng, !.jp = jp, !.op = "convert_into",
                            !.given.output_format = PyStr(c.output_format),
                            !.given.output_path = c.output_path,
                            !.force = force_subprocess,
                            !.silent = Truthy(c.kw.silent),
                            !.encoding = "utf-8",
                            !.java_options = c.java_options,
                            !.tmpInput = (c.input.kind # "path")])

ConvertIntoByBatch ==
    /\ calls < MaxCalls
    /\ \E c \in ConvertIntoByBatchCalls : \E force_subprocess \in BOOLEAN :
        \E jp \in JpChoices(force_subprocess) :
        \E a \in {[input_dir |-> c.input_dir,
                   output_format |-> c.output_format,
                   java_options |-> c.java_options,
                   force_subprocess |-> force_subprocess,
                   kw |-> c.kw]} :
        \E r0 \in {convert_into_by_batch(World, a, jp, "tables")} :
        \E eng \in EngChoices(r0.cmd) :
        \E r \in {IF eng = "tables" THEN r0
                  ELSE convert_into_by_batch(World, a, jp, eng)} :
            /\ ReachedJpype(r.events, jp)
            /\ ReachedEngine(r.cmd, eng)
            /\ Commit(r, [NoCall EXCEPT
                            !.eng = eng, !.jp = jp,
                            !.op = "convert_into_by_batch",
                            !.given.output_format = PyStr(c.output_format),
                            !.given.input_dir = c.input_dir,
                            !.force = force_subprocess,
                            !.silent = Truthy(c.kw.silent),
                            !.encoding = "utf-8",
                            !.java_options = c.java_options])

\* os.environ["TABULA_JAR"] = ...: the process names a jar of its own, as
\* the note at the head of io.py tells it to
Putenv ==
    /\ calls < MaxCalls
    /\ environ = PyNone
    /\ environ' = PyStr("/tmp/tabula-java.jar")
    /\ calls' = calls + 1
    /\ last' = [NoCall EXCEPT !.op = "putenv"]
    /\ UNCHANGED <<tabula_vm, created, jvm, userList, userPandas, tmpfiles,
                   platform, opt, res, arg, ret>>

\* a fresh Python process: no backend, no JVM, an empty temp directory
InitProcess ==
    /\ tabula_vm = NoVm
    /\ created = [TabulaVm |-> 0, SubprocessTabula |-> 0]
    /\ jvm = [started |-> FALSE, starts |-> 0, options |-> <<>>,
              classpath |-> <<>>]
    /\ userList = <<"-Xmx256m">>
    /\ userPandas = [NoPandasOptions EXCEPT !.header = PyNone]
    /\ environ = PyNone
    /\ tmpfiles = [made |-> 0, present |-> {}]
    /\ calls = 0
    /\ last = NoCall

\* no function call
NoArg == [fn |-> "none"]

NotApplied == [fn |-> "none"]

Init ==
    /\ InitProcess
    /\ platform = "Linux"
    /\ opt = DefaultOption
    /\ res = NotCalled(DefaultOption)
    /\ arg = NoArg
    /\ ret = NotApplied

Next ==
    \/ ReadPdf \/ ReadPdfWithTemplate \/ ConvertInto \/ ConvertIntoByBatch
    \/ Putenv

Spec == Init /\ [][Next]_vars

\* option rendering alone
InitOpt ==
    /\ InitProcess
    /\ platform = "Linux"
    /\ opt \in OptionDomain
    /\ res = NotCalled(opt)
    /\ arg = NoArg
    /\ ret = NotApplied

NextOpt == BuildOptionList

SpecOpt == InitOpt /\ [][NextOpt]_vars

-----------------------------------------------------------------------------
(* The functions merge and load_template as a state machine: the arguments *)
(* are drawn from bounded sets and the function is applied to them.        *)

\* the operands of merge: instances that differ in fields of every type
MergeOperands ==
    {[DefaultOption EXCEPT !.pages = p, !.guess = g, !.area = a,
                           !.silent = sl, !.format = f,
                           !.multiple_tables = m] :
        p \in {PyNone, PyInt(1)}, g \in FlagDomain,
        a \in {PyNone, PyList(<<>>), R1, PyList(<<R1, R2>>)},
        sl \in {PyNone, PyBool(FALSE), PyBool(TRUE)},
        f \in {PyNone, PyStr("JSON")}, m \in FlagDomain}

\* most regions in a template
MaxTemplateRegions == 3

TemplateRegions ==
    {Region(page, method, y1) :
        page \in {1, 2}, method \in {"guess", "lattice", "stream"},
        y1 \in {0, 20}}

\* the lists of regions a template holds
TemplateLists ==
    UNION {[1..n -> TemplateRegions] : n \in 0..MaxTemplateRegions}

FnArgs ==
    {[fn |-> "merge", self |-> o, other |-> b] :
        o \in MergeOperands, b \in MergeOperands}
    \cup {[fn |-> "load_template", content |-> [json |-> TRUE, regions |-> t]] :
            t \in TemplateLists}
    \cup {[fn |-> "load_template", content |-> Malformed]}

\* arg.self.merge(arg.other)
Merge ==
    /\ arg.fn = "merge"
    /\ ret.fn = "none"
    /\ ret' = [fn |-> "merge", self |-> arg.self, other |-> arg.other,
               value |-> merge(arg.self, arg.other)]
    /\ UNCHANGED <<arg, dispatchVars, renderVars>>

\* load_template applied to a source that holds arg.content
LoadTemplate ==
    /\ arg.fn = "load_template"
    /\ ret.fn = "none"
    /\ \E t \in {load_template(arg.content)} :
          ret' = [fn |-> "load_template", content |-> arg.content,
                  raised |-> t.raised, options |-> t.options]
    /\ UNCHANGED <<arg, dispatchVars, renderVars>>

InitFn ==
    /\ InitProcess
    /\ platform = "Linux"
    /\ opt = DefaultOption
    /\ res = NotCalled(DefaultOption)
    /\ arg \in FnArgs
    /\ ret = NotApplied

NextFn == Merge \/ LoadTemplate

SpecFn == InitFn /\ [][NextFn]_vars

-----------------------------------------------------------------------------
(* The function _extract_from as a state machine: the tables and the       *)
(* pandas options are drawn from bounded sets and it is applied to them.   *)

\* most tables in the engine's output
MaxTables == 2

\* most rows of a table after its first
MaxRows == 2

\* the texts of a first row: empty, a name, and a name that looks suffixed
HeaderTexts == {"", "A", "A.1"}

FirstRows == [1..3 -> HeaderTexts]

\* rows of data: a column of numbers, one with a text, one with a cell missing
DataRows == {<<"1", "2", "3">>, <<"4", "x", "">>}

Bodies == UNION {[1..n -> DataRows] : n \in 0..MaxRows}

\* the first table of an output: any first row over any rows of data, rows
\* of data alone, or no row at all
FirstTables == {<<h>> \o b : h \in FirstRows, b \in Bodies} \cup Bodies

\* the tables after the first
LaterTables ==
    {<<>>,
     <<(<<"A", "", "">>), (<<"1", "2", "3">>)>>,
     <<(<<"1", "2", "3">>), (<<"4", "x", "">>)>>,
     <<(<<"", "A", "A">>)>>,
     <<(<<"Unnamed: 0", "", "">>), (<<"5", "6", "7">>)>>}

RawJsons ==
    {<<t>> \o later :
        t \in FirstTables,
        later \in UNION {[1..n -> LaterTables] : n \in 0..(MaxTables - 1)}}

Names3 == PyList(<<"a", "b", "c">>)

Names2 == PyList(<<"a", "b">>)

NamesTwice == PyList(<<"a", "a", "b">>)

\* the pandas_options of the calls
PandasDicts ==
    {PyNone, NoPandasOptions,
     [NoPandasOptions EXCEPT !.header = PyStr("infer")],
     [NoPandasOptions EXCEPT !.header = PyNone],
     [NoPandasOptions EXCEPT !.header = PyInt(1)],
     [NoPandasOptions EXCEPT !.header = PyBool(TRUE)],
     [NoPandasOptions EXCEPT !.header = PyInt(-2)],
     [NoPandasOptions EXCEPT !.names = Names3],
     [NoPandasOptions EXCEPT !.columns = Names3],
     [NoPandasOptions EXCEPT !.header = PyInt(0), !.names = Names3],
     [NoPandasOptions EXCEPT !.header = PyNone, !.columns = Names3],
     [NoPandasOptions EXCEPT !.names = Names2],
     [NoPandasOptions EXCEPT !.names = NamesTwice],
     [NoPandasOptions EXCEPT !.names = Names3, !.columns = Names2],
     [NoPandasOptions EXCEPT !.dtype = PyStr("str")],
     [NoPandasOptions EXCEPT !.header = PyStr("infer"), !.names = Names3,
                             !.encoding = PyStr("utf-8")]}

TabArgs ==
    {[fn |-> "_extract_from", raw_json |-> j, pandas_options |-> d] :
        j \in RawJsons, d \in PandasDicts}

\* _extract_from(arg.raw_json, arg.pandas_options)
ExtractFrom ==
    /\ arg.fn = "_extract_from"
    /\ ret.fn = "none"
    /\ \E e \in {_extract_from(arg.raw_json, arg.pandas_options)} :
          ret' = [fn |-> "_extract_from", raw_json |-> arg.raw_json,
                  given |-> arg.pandas_options, raised |-> e.raised,
                  data_frames |-> e.data_frames,
                  pandas_options |-> e.pandas_options]
    /\ UNCHANGED <<arg, dispatchVars, renderVars>>

InitTab ==
    /\ InitProcess
    /\ platform = "Linux"
    /\ opt = DefaultOption
    /\ res = NotCalled(DefaultOption)
    /\ arg \in TabArgs
    /\ ret = NotApplied

NextTab == ExtractFrom

SpecTab == InitTab /\ [][NextTab]_vars

-----------------------------------------------------------------------------
(* Properties of the backend dispatch (Spec) *)

\* where an entry point raises before it calls _run
BeforeRun ==
    {"output_format", "output_path", "input_dir", "exists", "getsize",
     "load_template"}

\* where an entry point raises after _run returned: in reading the output
AfterRun == {"json.loads", "read_csv", "_extract_from"}

\* the entry points of the package; a step of the process is a call of one
\* of them or a setting of the environment
EntryPoints ==
    {"read_pdf", "read_pdf_with_template", "convert_into",
     "convert_into_by_batch"}

\* C1, as stated: once a backend is stored in _tabula_vm, no later call
\* constructs a TabulaVm or a SubprocessTabula, and the stored instance stays
\* the same.
C1_NoLaterConstruction ==
    [][tabula_vm.kind # "None" =>
          /\ tabula_vm'.id = tabula_vm.id
          /\ created' = created]_vars

\* C1, amended: once a backend is stored, a later call without
\* force_subprocess keeps that instance and constructs no backend; a later
\* call with force_subprocess=True that gets to _run constructs a new
\* SubprocessTabula and stores it in place of the instance.
C1_ReuseUnlessForced ==
    [][tabula_vm.kind # "None" =>
          IF last'.force /\ last'.raisedAt \notin BeforeRun
          THEN /\ tabula_vm'.kind = "SubprocessTabula"
               /\ tabula_vm'.id > tabula_vm.id
               /\ created'.SubprocessTabula > created.SubprocessTabula
               /\ created'.TabulaVm = created.TabulaVm
          ELSE /\ tabula_vm'.id = tabula_vm.id
               /\ tabula_vm'.kind = tabula_vm.kind
               /\ created' = created]_vars

\* a second call, without force_subprocess, served by the TabulaVm the
\* first call stored
C1_Reused ==
    /\ calls = 2
    /\ last.vm0 = "TabulaVm"
    /\ ~last.force
    /\ last.raised = "None"
    /\ last.result # <<>>
    /\ tabula_vm.kind = "TabulaVm"
    /\ tabula_vm.id = 1

\* C2: when the stored backend is a SubprocessTabula and a later call
\* without force_subprocess brings another encoding or silent setting, the
\* same instance takes the settings and the call goes on to its engine
\* invocation: it constructs no backend and does not fail in the update.
C2_SettingsAppliedInPlace ==
    [][(/\ tabula_vm.kind = "SubprocessTabula"
        /\ last'.op \in EntryPoints
        /\ ~last'.force
        /\ last'.raisedAt \notin BeforeRun
        /\ (last'.encoding # tabula_vm.encoding \/ last'.silent)) =>
          /\ tabula_vm'.id = tabula_vm.id
          /\ created' = created
          /\ tabula_vm'.encoding = last'.encoding
          /\ last'.raisedAt \in {"", "build_option_list", "engine", "decode"}
                                    \cup AfterRun]_vars

\* C3: a call with force_subprocess=True that gets to _run, from any backend
\* state, leaves a SubprocessTabula stored and runs the extraction in a
\* child java process: it fails only in the option list or in the child,
\* and when it returns a child was spawned.
C3_ForceRunsChild ==
    (/\ last.op # "none"
     /\ last.force
     /\ last.raisedAt \notin BeforeRun) =>
        /\ tabula_vm.kind = "SubprocessTabula"
        /\ last.raisedAt \in {"", "build_option_list", "engine", "decode"}
                                \cup AfterRun
        /\ "engine" \notin Range(last.events)
        /\ (last.raised = "None" \/ last.raisedAt \in AfterRun)
              => "spawn" \in Range(last.events)

\* C4: in a call without force_subprocess made while no backend is stored,
\* when the embedded runtime fails to initialize (jpype or the engine's
\* classes cannot be imported or loaded, or the JVM does not start), the
\* failure does not reach the caller: a SubprocessTabula is stored and the
\* same _run call goes through a child process; what it raises, the child
\* invocation raises (a call can still fail after _run returned, in reading
\* the output).
C4_FallbackToChild ==
    (/\ last.vm0 = "None"
     /\ ~last.force
     /\ last.jp # "ok") =>
        LET first == IF last.op = "read_pdf_with_template"
                     THEN last.runs[1] ELSE last
        IN  /\ tabula_vm.kind = "SubprocessTabula"
            /\ first.raisedAt \notin AfterRun =>
                  /\ first.raisedAt \in {"", "build_option_list", "engine",
                                         "decode"}
                  /\ first.raised \in {"None", "ValueError",
                                       "JavaNotFoundError",
                                       "CalledProcessError",
                                       "UnicodeDecodeError"}
            /\ "engine" \notin Range(last.events)
            /\ (first.raised = "None" \/ first.raisedAt \in AfterRun)
                  => "spawn" \in Range(last.events)

\* C5: over any sequence of calls the JVM is started at most once.
C5_StartedAtMostOnce == jvm.starts <= 1

\* a second call constructs a TabulaVm while the JVM the first call started
\* is running, and does not start it
C5_ConstructedAgain ==
    /\ calls = 2
    /\ jvm.starts = 1
    /\ last.vm0 = "None"
    /\ "TabulaVm" \in Range(last.events)
    /\ "startJVM" \notin Range(last.events)

\* C6: a call of read_pdf or convert_into on a URL or a file-like input
\* leaves no temporary file behind, whether it returns or raises.
C6_TempInputDeleted ==
    [][(last'.op \in {"read_pdf", "convert_into"} /\ last'.tmpInput) =>
          tmpfiles'.present \subseteq tmpfiles.present]_vars

\* C7: a call of read_pdf_with_template on a URL or a file-like template
\* leaves no temporary template file behind, whether it returns or raises.
C7_TempTemplateDeleted ==
    [][(last'.op = "read_pdf_with_template" /\ last'.tmpTemplate) =>
          ("uuid" \o ToString(tmpfiles.made + 1) \o ".json")
              \notin tmpfiles'.present]_vars

\* C8: when the area or the columns option is invalid, the error is raised
\* before the JVM is started, before a child process is spawned and before
\* the engine is called.
C8_ValidationBeforeRuntime ==
    last.raisedAt = "build_option_list" =>
        Range(last.events) \cap {"startJVM", "spawn", "engine"} = {}

\* C9: read_pdf_with_template makes one read_pdf invocation per option of
\* the template, in the order of the list, and returns their tables
\* concatenated in that order; when an invocation raises, none follows and
\* the call raises that exception, returning nothing.
C9_SequentialInOrder ==
    (last.op = "read_pdf_with_template" /\ last.raisedAt # "load_template") =>
        LET n == Len(last.runs)
            cat[k \in 0..n] ==
                IF k = 0 THEN <<>> ELSE cat[k - 1] \o last.runs[k].result
        IN  /\ 1 <= n
            /\ n <= Len(last.plan)
            /\ \A k \in 1..(n - 1) : last.runs[k].raised = "None"
            /\ \A k \in 1..n :
                /\ last.runs[k].req # <<>> =>
                      last.runs[k].req[1] = ToString(last.plan[k].pages.val)
                /\ \A i \in DOMAIN last.runs[k].result :
                      last.runs[k].result[i].req = last.runs[k].req
            /\ IF last.runs[n].raised = "None"
               THEN /\ n = Len(last.plan)
                    /\ last.raised = "None"
                    /\ last.result = cat[n]
               ELSE /\ last.raised = last.runs[n].raised
                    /\ last.result = <<>>

\* a template of two options: two invocations, and the tables of the first
\* before the tables of the second
C9_TwoInvocations ==
    /\ last.op = "read_pdf_with_template"
    /\ last.raised = "None"
    /\ Len(last.plan) = 2
    /\ Len(last.runs) = 2
    /\ Len(last.result) = 4
    /\ last.result[1].req # last.result[3].req

-----------------------------------------------------------------------------
(* Properties of option rendering (SpecOpt) *)

OptionFlags ==
    <<"--pages", "--area", "--lattice", "--stream", "--guess", "--format",
      "--outfile", "--columns", "--password", "--batch", "--silent">>

\* C10: the list build_option_list returns starts with the raw tokens; its
\* option flags follow in the order --pages, --area (one per region),
\* --lattice, --stream, --guess, --format, --outfile, --columns, --password,
\* --batch, --silent; a flag is there only if its field is set.
C10_FixedOrder ==
    (res.op = "build_option_list" /\ res.raised = "None") =>
        LET t == res.tokens
            o == res.before
            raw == IF o.options = PyStr("") THEN <<>> ELSE <<"-r", "-n x">>
            rank(x) == CHOOSE i \in DOMAIN OptionFlags : OptionFlags[i] = x
            at == {i \in (Len(raw) + 1)..Len(t) : t[i] \in Range(OptionFlags)}
            has(f) == \E i \in at : t[i] = f
            regions == IF ~Truthy(o.area) THEN 0
                       ELSE IF \E i \in DOMAIN o.area.val :
                                  IsListOrTuple(o.area.val[i])
                       THEN Len(o.area.val) ELSE 1
        IN  /\ Len(t) >= Len(raw)
            /\ SubSeq(t, 1, Len(raw)) = raw
            /\ \A i, j \in at :
                  i < j => \/ rank(t[i]) < rank(t[j])
                           \/ t[i] = "--area" /\ t[j] = "--area"
            /\ Cardinality({i \in at : t[i] = "--area"}) = regions
            /\ has("--pages") <=> Truthy(o.pages)
            /\ has("--lattice") <=> Truthy(o.lattice)
            /\ has("--stream") <=> Truthy(o.stream)
            /\ has("--guess") => Truthy(o.guess)
            /\ has("--format") <=> Truthy(o.format)
            /\ has("--outfile") <=> Truthy(o.output_path)
            /\ has("--columns") <=> Truthy(o.columns)
            /\ has("--password") <=> Truthy(o.password)
            /\ has("--batch") <=> Truthy(o.batch)
            /\ has("--silent") <=> Truthy(o.silent)

\* a list with raw tokens, two regions and every group but --guess
C10_EveryGroup ==
    /\ res.op = "build_option_list"
    /\ res.raised = "None"
    /\ res.tokens[1] = "-r"
    /\ Cardinality({i \in DOMAIN res.tokens : res.tokens[i] = "--area"}) = 2
    /\ \A f \in Range(OptionFlags) \ {"--guess"} : f \in Range(res.tokens)

\* the regions of an area: the area itself, or the elements of a nested one
RegionsOf(area) ==
    IF ~Truthy(area) \/ ~IsListOrTuple(area) THEN <<>>
    ELSE IF \E i \in DOMAIN area.val : IsListOrTuple(area.val[i])
    THEN area.val ELSE <<area>>

\* exactly 4 values with top < bottom and left < right
WellFormed(region) ==
    /\ IsListOrTuple(region)
    /\ Len(region.val) = 4
    /\ region.val[1].val < region.val[3].val
    /\ region.val[2].val < region.val[4].val

RawParses(o) == o.options \in {PyStr(""), PyStr("-r '-n x'")}

ColumnsInOrder(o) ==
    ~Truthy(o.columns)
    \/ \A i, j \in DOMAIN o.columns.val :
          i < j => o.columns.val[i].val <= o.columns.val[j].val

\* C11: build_option_list raises and returns no list when a region of the
\* area (the single region, or any region of a nested list) does not have
\* exactly 4 values with top < bottom and left < right; when every region
\* does, the area check raises nothing: the call returns unless the
\* columns are rejected.
C11_AreaChecked ==
    res.op = "build_option_list" =>
        LET regions == RegionsOf(res.before.area)
            allGood == \A i \in DOMAIN regions : WellFormed(regions[i])
        IN  /\ ~allGood => res.raised # "None" /\ res.tokens = <<>>
            /\ (allGood /\ RawParses(res.before)
                    /\ (ColumnsInOrder(res.before)
                        /\ (Truthy(res.before.columns)
                                => res.before.columns.kind = "list")))
                => res.raised = "None"

\* a nested area whose second region is rejected
C11_RegionRejected ==
    /\ res.op = "build_option_list"
    /\ res.raised = "ValueError"
    /\ res.before.area = PyList(<<R2, RBad>>)
    /\ ColumnsInOrder(res.before)

\* C12: for non-empty columns given as a list or as a tuple,
\* build_option_list raises if and only if the values are not in
\* non-decreasing order; when they are, it returns a list that holds
\* --columns followed by the comma-joined values, prefixed with % when
\* relative_columns is set.
C12_ColumnsChecked ==
    LET o == res.before
        regions == RegionsOf(o.area)
    IN  (/\ res.op = "build_option_list"
         /\ Truthy(o.columns) /\ IsListOrTuple(o.columns)
         /\ RawParses(o)
         /\ \A i \in DOMAIN regions : WellFormed(regions[i]))
        => /\ res.raised # "None" <=> ~ColumnsInOrder(o)
           /\ ColumnsInOrder(o) =>
                \E i \in 1..(Len(res.tokens) - 1) :
                    /\ res.tokens[i] = "--columns"
                    /\ res.tokens[i + 1] =
                         (IF o.relative_columns.val THEN "%" ELSE "")
                         \o Join(MapStr(o.columns.val), ",")

\* the tokens build_option_list generates itself: those after the raw ones
Generated(r) ==
    LET raw == IF r.before.options = PyStr("") THEN 0 ELSE 2
    IN  SubSeq(r.tokens, raw + 1, Len(r.tokens))

\* C13: when an area is supplied the tokens build_option_list generates
\* hold no --guess, whatever the guess field; when none is supplied they
\* hold --guess exactly when guess is true.
C13_GuessOffWithArea ==
    (res.op = "build_option_list" /\ res.raised = "None") =>
        IF Truthy(res.before.area)
        THEN "--guess" \notin Range(Generated(res))
        ELSE "--guess" \in Range(Generated(res)) <=> Truthy(res.before.guess)

\* a single region and guess = True: the call returns a list with --area
C13_GuessDropped ==
    /\ res.op = "build_option_list"
    /\ res.raised = "None"
    /\ res.before.area = R1
    /\ res.before.guess = PyBool(TRUE)
    /\ "--area" \in Range(res.tokens)

\* C14: build_option_list leaves every field of the instance as it was
\* before the call, whether it returns or raises.
C14_OptionUnchanged ==
    res.op = "build_option_list" => opt = res.before

-----------------------------------------------------------------------------
(* Properties of the child-process backend (Spec) *)

\* the call invoked the engine through a child process
ChildInvoked(c) == c.cmd # <<>> /\ c.cmd[1] = "java"

\* The java options of a call: the caller's list (none when java_options is
\* None, the one flag of a list written in the call), then the defaults,
\* -Djava.awt.headless=true on Darwin when the list sets no
\* java.awt.headless and -Dfile.encoding=UTF8 when the encoding is utf-8
\* and the list sets no file.encoding, then the two logging flags when
\* silent is set.
JavaOptionsOf(c, given) ==
    LET base == IF c.java_options = "user" THEN given
                ELSE IF c.java_options = "literal" THEN <<HEADLESS>>
                ELSE <<>>
        head == IF /\ platform = "Darwin"
                   /\ \A i \in DOMAIN base :
                         ~Contains(base[i], "java.awt.headless")
                THEN base \o <<HEADLESS>> ELSE base
    IN  head
        \o (IF /\ c.encoding = "utf-8"
                /\ \A i \in DOMAIN head : ~Contains(head[i], "file.encoding")
            THEN <<FILE_ENCODING>> ELSE <<>>)
        \o (IF c.silent THEN SILENT_FLAGS ELSE <<>>)

\* C18: the command line of the child process is "java", the java options
\* (the defaults, then the two logging flags when silent is set), "-jar"
\* and the jar path, the rendered option tokens, and last the input path
\* when a path is given.
C18_ChildCommandLine ==
    [][ChildInvoked(last') =>
          last'.cmd = <<"java">> \o JavaOptionsOf(last', userList)
                      \o <<"-jar", jar_path(World)>> \o last'.tokens
                      \o (IF Truthy(last'.path) THEN <<last'.path.val>>
                          ELSE <<>>)]_vars

\* C19: the outcome of a child-process invocation: JavaNotFoundError when
\* there is no java executable; the CalledProcessError itself when the child
\* exits with a non-zero status; and, when it exits with status zero, no
\* failure of the invocation, whatever it wrote on standard error.
C19_ChildOutcome ==
    ChildInvoked(last) =>
        /\ last.eng = "java_not_found" => last.raised = "JavaNotFoundError"
        /\ NonZeroExit(last.eng) => last.raised = "CalledProcessError"
        /\ (last.eng # "java_not_found" /\ ~NonZeroExit(last.eng)) =>
              last.raisedAt # "decode"

-----------------------------------------------------------------------------
(* Properties of the values read_pdf returns (Spec) *)

\* the engine of the last call was invoked and wrote nothing
WroteNothing(c) == c.cmd # <<>> /\ c.eng = "empty"

\* C20: when the engine invocation of read_pdf returns an empty output,
\* read_pdf raises nothing and returns the empty list, whatever output_format
\* and multiple_tables are.
C20_EmptyOutputEmptyList ==
    (last.op = "read_pdf" /\ WroteNothing(last)) =>
        last.raised = "None" /\ last.result = <<>>

\* read_pdf asked for one data frame of CSV, and the engine wrote nothing
C20_EmptyCsv ==
    /\ last.op = "read_pdf"
    /\ WroteNothing(last)
    /\ "--format" \notin Range(last.tokens)
    /\ "warning: empty" \in Range(last.events)
    /\ last.result = <<>>

\* C29: once the stored backend is a SubprocessTabula, no call constructs
\* a TabulaVm and the stored backend stays a SubprocessTabula.
C29_ChildBackendStays ==
    [][tabula_vm.kind = "SubprocessTabula" =>
          /\ tabula_vm'.kind = "SubprocessTabula"
          /\ created'.TabulaVm = created.TabulaVm
          /\ "TabulaVm" \notin Range(last'.events)]_vars

\* a call that got to _run after a SubprocessTabula had been stored
C29_CalledAfterChild ==
    /\ last.vm0 = "SubprocessTabula"
    /\ ~last.force
    /\ last.raisedAt \notin BeforeRun
    /\ tabula_vm.kind = "SubprocessTabula"

-----------------------------------------------------------------------------
(* Properties of the java options (Spec) *)

\* the flags tabula-py adds to java options by itself
Injected == {HEADLESS, FILE_ENCODING} \cup Range(SILENT_FLAGS)

\* the flags the caller gives in java_options, list being the list it holds
CallerFlags(java_options, list) ==
    IF java_options = "None" THEN {}
    ELSE IF java_options = "literal" THEN {HEADLESS}
    ELSE Range(list)

\* C27: when the stored backend is the embedded runtime, a call without
\* force_subprocess that gets to _run logs the warning that java_options is
\* ignored exactly when the caller's java options hold a flag tabula-py
\* does not add by itself; either way the JVM is left as it runs, the
\* backend stays, and the call goes on to the engine.
C27_WarnsOnForeignFlags ==
    [][(/\ tabula_vm.kind = "TabulaVm"
        /\ last'.op \in EntryPoints
        /\ ~last'.force
        /\ last'.raisedAt \notin BeforeRun) =>
          /\ ("warning: java_options" \in Range(last'.events))
                <=> (CallerFlags(last'.java_options, userList) \ Injected # {})
          /\ jvm' = jvm
          /\ tabula_vm' = tabula_vm
          /\ "build_option_list" \in Range(last'.events)
          /\ last'.raisedAt # "build_option_list"
                => "engine" \in Range(last'.events)]_vars

\* a second call, silent and without java options, on the embedded
\* runtime: no warning, and the tables are returned
C27_SilentNoWarning ==
    /\ last.vm0 = "TabulaVm"
    /\ ~last.force
    /\ last.silent
    /\ last.java_options = "None"
    /\ "warning: java_options" \notin Range(last.events)
    /\ last.result # <<>>

\* the number of places of the sequence that hold the flag
Occurrences(flag, seq) == Cardinality({i \in DOMAIN seq : seq[i] = flag})

\* C28: whatever calls were made, neither of the two logging flags nor
\* -Dfile.encoding=UTF8 stands more than once in the options the JVM was
\* started with or in the command line of a child process.
C28_FlagsAtMostOnce ==
    \A flag \in Range(SILENT_FLAGS) \cup {FILE_ENCODING} :
        /\ Occurrences(flag, jvm.options) <= 1
        /\ ChildInvoked(last) => Occurrences(flag, last.cmd) <= 1

-----------------------------------------------------------------------------
(* Properties of the arguments of the entry points (Spec) *)

\* the call was given an argument its entry point does not take
BadArgument(c) ==
    \/ /\ c.op = "read_pdf"
       /\ Truthy(c.given.output_format)
       /\ lower(c.given.output_format.val) \notin {"dataframe", "json"}
    \/ /\ c.op = "convert_into"
       /\ \/ ~Truthy(c.given.output_path)
          \/ lower(c.given.output_format.val) \notin {"csv", "json", "tsv"}
    \/ /\ c.op = "convert_into_by_batch"
       /\ \/ c.given.input_dir.path = PyNone
          \/ ~c.given.input_dir.isdir
          \/ lower(c.given.output_format.val) \notin {"csv", "json", "tsv"}

\* C26: a call of read_pdf, convert_into or convert_into_by_batch with such
\* an argument raises ValueError before it does anything: no file is
\* localized, no backend is constructed and the engine is not invoked.
C26_ArgumentsCheckedFirst ==
    [][BadArgument(last') =>
          /\ last'.raised = "ValueError"
          /\ last'.events = <<>>
          /\ last'.cmd = <<>>
          /\ tmpfiles' = tmpfiles
          /\ tabula_vm' = tabula_vm
          /\ created' = created]_vars

\* convert_into of a file-like object with an unknown format: ValueError,
\* and no temporary file was written
C26_BufferUntouched ==
    /\ last.op = "convert_into"
    /\ last.tmpInput
    /\ last.given.output_format = PyStr("xml")
    /\ last.raised = "ValueError"
    /\ last.raisedAt = "output_format"
    /\ tmpfiles.made = 0

-----------------------------------------------------------------------------
(* Properties of the pandas options (Spec) *)

\* the column names and the header line that a dict of pandas options gives
\* the frames made of it
PolicyOf(pandas_options) ==
    [columns |-> Get(pandas_options, "names"),
     header |-> HeaderLine(IF pandas_options["header"] = Absent
                           THEN PyStr("infer") ELSE pandas_options["header"],
                           Get(pandas_options, "names"))]

\* C30: a call of read_pdf or read_pdf_with_template with the caller's dict
\* of pandas options leaves the dict as it was, and every frame the call
\* returns, whichever of the sequential invocations made it, has the column
\* names and the header line that the dict gives.
C30_PandasOptionsKept ==
    [][last'.pandas_options = "user" =>
          /\ userPandas' = userPandas
          /\ \A i \in DOMAIN last'.result :
                /\ last'.result[i].columns = PolicyOf(userPandas).columns
                /\ last'.result[i].header = PolicyOf(userPandas).header]_vars

\* a template call with the caller's dict whose second invocation made a frame
C30_SecondInvocationFramed ==
    /\ last.op = "read_pdf_with_template"
    /\ last.pandas_options = "user"
    /\ last.raised = "None"
    /\ Len(last.runs) >= 2
    /\ last.runs[1].result # <<>>
    /\ last.runs[2].result # <<>>
    /\ userPandas["header"] = PyNone

-----------------------------------------------------------------------------
(* Properties of merge and load_template (SpecFn) *)

\* C15: override.merge(base) returns an instance in which each field is the
\* override's value if that value is truthy and the base's value otherwise,
\* a list-valued field being one value; so a false or empty value of the
\* override never replaces a true or non-empty value of the base.
C15_MergePrefersTruthy ==
    ret.fn = "merge" =>
        /\ DOMAIN ret.value = DOMAIN ret.self
        /\ \A f \in DOMAIN ret.self :
              /\ Truthy(ret.self[f]) => ret.value[f] = ret.self[f]
              /\ ~Truthy(ret.self[f]) => ret.value[f] = ret.other[f]
              /\ (~Truthy(ret.self[f]) /\ Truthy(ret.other[f]))
                    => Truthy(ret.value[f])

\* an override with guess = False, silent = False and an empty area merged
\* with a base that has guess = True, silent = True and two regions
C15_FalseOverride ==
    /\ ret.fn = "merge"
    /\ ret.self.guess = PyBool(FALSE) /\ ret.other.guess = PyBool(TRUE)
    /\ ret.self.silent = PyBool(FALSE) /\ ret.other.silent = PyBool(TRUE)
    /\ ret.self.area = PyList(<<>>) /\ ret.other.area = PyList(<<R1, R2>>)
    /\ ret.value.guess = PyBool(TRUE)
    /\ ret.value.area = PyList(<<R1, R2>>)

\* the (page, extraction_method) pair of a template region
PairOf(region) == <<region.page, region.extraction_method>>

\* the pair an option was made for
PairOfOption(o) ==
    <<o.pages.val,
      IF o.guess.val THEN "guess"
      ELSE IF o.lattice.val THEN "lattice" ELSE "stream">>

\* the area of a template region: top, left, bottom, right
AreaOfRegion(region) ==
    IntList(<<region.y1, region.x1, region.y2, region.x2>>)

\* C16: load_template returns exactly one option per distinct
\* (page, extraction_method) pair of the template; for a pair with one
\* region the option carries that region's area of 4 values; for a pair
\* with several regions its area is the list of their areas, in the order
\* in which they appear in the template, and multiple_tables is true.
C16_OneOptionPerPair ==
    (ret.fn = "load_template" /\ ret.raised = "None") =>
        LET regions == ret.content.regions
            pairs == {PairOf(regions[i]) : i \in DOMAIN regions}
            of(pair) == SelectSeq(regions, LAMBDA r : PairOf(r) = pair)
            areas(pair) == [i \in DOMAIN of(pair) |->
                                AreaOfRegion(of(pair)[i])]
        IN  /\ Len(ret.options) = Cardinality(pairs)
            /\ \A pair \in pairs :
                  \E k \in DOMAIN ret.options :
                      /\ PairOfOption(ret.options[k]) = pair
                      /\ IF Len(of(pair)) = 1
                         THEN ret.options[k].area = areas(pair)[1]
                         ELSE /\ ret.options[k].area = PyList(areas(pair))
                              /\ ret.options[k].multiple_tables
                                    = PyBool(TRUE)

\* two regions of one pair with a region of another pair between them
C16_SplitPair ==
    /\ ret.fn = "load_template"
    /\ ret.content.regions = <<Region(1, "lattice", 20),
                               Region(1, "stream", 0),
                               Region(1, "lattice", 0)>>
    /\ Len(ret.options) = 2
    /\ ret.options[1].area = PyList(<<IntList(<<20, 0, 30, 50>>),
                                      IntList(<<0, 0, 10, 50>>)>>)

\* the permutations of a list
Reorderings(seq) ==
    {[i \in DOMAIN seq |-> seq[f[i]]] :
        f \in {g \in [DOMAIN seq -> DOMAIN seq] :
                  \A i, j \in DOMAIN seq : g[i] = g[j] => i = j}}

\* "guess" < "lattice" < "stream"
MethodRank(method) ==
    CASE method = "guess" -> 1 [] method = "lattice" -> 2
      [] method = "stream" -> 3

PairsOf(options) == [k \in DOMAIN options |-> PairOfOption(options[k])]

\* C17: the options load_template returns are in ascending order of page
\* and then of extraction method, and every permutation of the template's
\* list of regions gives the options in the same order.
C17_OrderedByPair ==
    (ret.fn = "load_template" /\ ret.raised = "None") =>
        LET pairs == PairsOf(ret.options)
        IN  /\ \A i, j \in DOMAIN pairs :
                  i < j =>
                      \/ pairs[i][1] < pairs[j][1]
                      \/ /\ pairs[i][1] = pairs[j][1]
                         /\ MethodRank(pairs[i][2]) < MethodRank(pairs[j][2])
            /\ \A t \in Reorderings(ret.content.regions) :
                  PairsOf(load_template([json |-> TRUE,
                                         regions |-> t]).options) = pairs

\* a template that lists its regions in descending order
C17_Descending ==
    /\ ret.fn = "load_template"
    /\ ret.content.regions = <<Region(2, "stream", 0),
                               Region(1, "lattice", 0),
                               Region(1, "guess", 0)>>
    /\ PairsOf(ret.options) = <<(<<1, "guess">>), (<<1, "lattice">>),
                                (<<2, "stream">>)>>

-----------------------------------------------------------------------------
(* Properties of the data frames (SpecTab) *)

\* the tables that have rows, in order: each gives one frame
WithRows(raw_json) == SelectSeq(raw_json, LAMBDA t : t # <<>>)

\* the column names in force: names, or columns when there is no names key
NamesGiven(d) ==
    IF d = PyNone THEN PyNone
    ELSE IF d.names # Absent THEN d.names
    ELSE Get(d, "columns")

\* the header policy of the options
HeaderGiven(d) ==
    IF d = PyNone \/ d.header = Absent THEN PyStr("infer") ELSE d.header

\* _extract_from returned the frames of tables with no names given and the
\* header inferred
Inferred(r) ==
    /\ r.fn = "_extract_from"
    /\ r.raised = "None"
    /\ ~Truthy(NamesGiven(r.given))
    /\ HeaderGiven(r.given) = PyStr("infer")

\* the frame of the k-th table with rows holds all the rows of the table
KeepsRows(r, k) ==
    Len(r.data_frames[k].data) = Len(WithRows(r.raw_json)[k])

\* the frame of the k-th table with rows holds all but the first of them
DropsFirstRow(r, k) ==
    Len(r.data_frames[k].data) = Len(WithRows(r.raw_json)[k]) - 1

IsPrefix(a, b) == Len(a) <= Len(b) /\ SubSeq(b, 1, Len(a)) = a

\* the names of the frame start with the texts of the row, where it has any
NamedAfter(df, row) ==
    /\ Len(df.columns) = Len(row)
    /\ \A i \in DOMAIN row :
          row[i] # "" => /\ df.columns[i].kind = "str"
                          /\ IsPrefix(row[i], df.columns[i].val)

\* C21, as stated: with no names given and the header inferred, only the
\* first table loses its first row to the header; every later table keeps
\* all its rows as data.
C21_FirstTableOnly ==
    Inferred(ret) =>
        /\ Len(ret.data_frames) = Len(WithRows(ret.raw_json))
        /\ \A k \in DOMAIN ret.data_frames :
              IF k = 1 THEN DropsFirstRow(ret, k) ELSE KeepsRows(ret, k)

\* C21, amended: with no names given and the header inferred, every table
\* that has rows loses its own first row to its own header: its frame has
\* the rows after the first, under names made of that first row.
C21_EveryTableOwnHeader ==
    Inferred(ret) =>
        /\ Len(ret.data_frames) = Len(WithRows(ret.raw_json))
        /\ \A k \in DOMAIN ret.data_frames :
              /\ DropsFirstRow(ret, k)
              /\ NamedAfter(ret.data_frames[k], WithRows(ret.raw_json)[k][1])

\* two tables with rows, each named after its own first row
C21_TwoHeaders ==
    /\ Inferred(ret)
    /\ ret.raw_json = <<(<<(<<"A", "A.1", "A">>), (<<"1", "2", "3">>)>>),
                        (<<(<<"1", "2", "3">>), (<<"4", "x", "">>)>>)>>
    /\ Len(ret.data_frames) = 2
    /\ ret.data_frames[2].columns = <<PyStr("1"), PyStr("2"), PyStr("3")>>
    /\ Len(ret.data_frames[2].data) = 1

\* _extract_from was applied with column names given
Named(r) == r.fn = "_extract_from" /\ Truthy(NamesGiven(r.given))

\* the cells of the frame are those of the rows, in place: a cell is missing
\* exactly where the text is empty
CellsInPlace(df, rows) ==
    /\ Len(df.data) = Len(rows)
    /\ \A n \in DOMAIN rows :
          /\ Len(df.data[n]) = Len(rows[n])
          /\ \A i \in DOMAIN rows[n] : (df.data[n][i] = NaN) = (rows[n][i] = "")

\* C22: when column names are given, as names or as columns, they are the
\* column names of the frame of every table that has rows and every frame
\* holds all the rows of its table, whatever the header policy is; the call
\* raises nothing unless a table has another number of columns than names.
C22_NamesForEveryTable ==
    Named(ret) =>
        /\ ret.raised \in {"None", "ValueError"}
        /\ ret.raised = "ValueError" =>
              \E t \in Range(WithRows(ret.raw_json)) :
                  Len(t[1]) # Len(NamesGiven(ret.given).val)
        /\ ret.raised = "None" =>
              /\ Len(ret.data_frames) = Len(WithRows(ret.raw_json))
              /\ \A k \in DOMAIN ret.data_frames :
                    /\ ret.data_frames[k].columns =
                          [i \in DOMAIN NamesGiven(ret.given).val |->
                              PyStr(NamesGiven(ret.given).val[i])]
                    /\ CellsInPlace(ret.data_frames[k],
                                    WithRows(ret.raw_json)[k])

\* names given with header=0: two frames named a, b, c with all their rows
C22_NamedWithHeaderZero ==
    /\ Named(ret)
    /\ ret.given.header = PyInt(0)
    /\ ret.raised = "None"
    /\ Len(ret.data_frames) = 2
    /\ Len(ret.data_frames[1].data) = 3
    /\ Len(ret.data_frames[2].data) = 2

\* _extract_from returned frames whose names come from row number
\* HeaderGiven + 1 of each table
Headed(r) ==
    /\ r.fn = "_extract_from"
    /\ r.raised = "None"
    /\ ~Truthy(NamesGiven(r.given))
    /\ HeaderGiven(r.given).kind \in {"str", "int", "bool"}

\* the header row of the k-th table with rows
HeaderRow(r, k) ==
    LET table == WithRows(r.raw_json)[k]
    IN  table[IF IsInt(HeaderGiven(r.given))
              THEN PopIndex(Len(table), IntOf(HeaderGiven(r.given))) + 1
              ELSE 1]

\* the name of an empty cell: the empty cells of the row before it counted
UnnamedAt(row, i) ==
    "Unnamed: " \o ToString(Cardinality({j \in 1..(i - 1) : row[j] = ""}))

\* C23: in every header row taken from a table, an empty cell becomes
\* "Unnamed: n", n being the number of empty cells of that row to its left,
\* and a cell with a text keeps it: the column's name is that name, or
\* starts with it when an earlier column of the table has the name already.
C23_UnnamedCounted ==
    Headed(ret) =>
        \A k \in DOMAIN ret.data_frames :
            LET row == HeaderRow(ret, k)
                names == ret.data_frames[k].columns
                synth == [i \in DOMAIN row |->
                            IF row[i] = "" THEN UnnamedAt(row, i) ELSE row[i]]
            IN  /\ Len(names) = Len(row)
                /\ \A i \in DOMAIN row :
                      /\ IsPrefix(synth[i], names[i].val)
                      /\ (\A j \in 1..(i - 1) : names[j].val # synth[i])
                            => names[i].val = synth[i]

\* a second table whose header has two empty cells: they are numbered from
\* zero again
C23_RestartsPerTable ==
    /\ Headed(ret)
    /\ Len(ret.data_frames) = 2
    /\ HeaderRow(ret, 1) = <<"", "A", "">>
    /\ HeaderRow(ret, 2) = <<"", "A", "A">>
    /\ ret.data_frames[1].columns
          = <<PyStr("Unnamed: 0"), PyStr("A"), PyStr("Unnamed: 1")>>
    /\ ret.data_frames[2].columns[1] = PyStr("Unnamed: 0")

\* the number of times the text stands in the row before place i
Earlier(row, i) == Cardinality({j \in 1..(i - 1) : row[j] = row[i]})

\* no text of the row is the text at place i with a suffix
Unsuffixed(row, i) ==
    \A j \in DOMAIN row : ~IsPrefix(row[i] \o ".", row[j])

\* C24: the column names made of a header row are pairwise distinct; a name
\* no earlier column has is kept as it is; and where no text of the row is
\* a suffixed form of it, the k-th repetition of a text gets the suffix .k.
C24_NamesDistinct ==
    Headed(ret) =>
        \A k \in DOMAIN ret.data_frames :
            LET row == HeaderRow(ret, k)
                names == ret.data_frames[k].columns
                synth == [i \in DOMAIN row |->
                            IF row[i] = "" THEN UnnamedAt(row, i) ELSE row[i]]
            IN  /\ \A i, j \in DOMAIN names : i # j => names[i] # names[j]
                /\ \A i \in DOMAIN names :
                      /\ (\A j \in 1..(i - 1) : names[j].val # synth[i])
                            => names[i].val = synth[i]
                      /\ (Earlier(synth, i) > 0 /\ Unsuffixed(synth, i))
                            => names[i].val = synth[i] \o "."
                                   \o ToString(Earlier(synth, i))

\* the header A, A, A.1: the second A takes A.1 and the literal A.1 moves on
C24_LiteralSuffix ==
    /\ Headed(ret)
    /\ Len(ret.data_frames) >= 1
    /\ HeaderRow(ret, 1) = <<"A", "A", "A.1">>
    /\ ret.data_frames[1].columns
          = <<PyStr("A"), PyStr("A.1"), PyStr("A.1.1")>>

\* the rows of the k-th table with rows that are its data: all of them, or
\* all but the header row
DataOf(r, k) ==
    LET table == WithRows(r.raw_json)[k]
    IN  IF Headed(r)
        THEN Without(table,
                     IF IsInt(HeaderGiven(r.given))
                     THEN PopIndex(Len(table), IntOf(HeaderGiven(r.given)))
                     ELSE 0)
        ELSE table

\* C25: when the pandas options give no dtype, every column of a frame is
\* made numeric as a whole or not at all, by its own cells alone: when each
\* of its cells is a number or missing, every cell holds its number (a
\* missing one stays missing); when one cell is a text that is no number,
\* every cell holds its text as it was.
C25_ColumnwiseCoercion ==
    (/\ ret.fn = "_extract_from"
     /\ ret.raised = "None"
     /\ ~Truthy(Get(IF ret.given = PyNone THEN NoPandasOptions
                    ELSE ret.given, "dtype"))) =>
        \A k \in DOMAIN ret.data_frames :
            LET rows == DataOf(ret, k)
                df == ret.data_frames[k]
            IN  \A i \in DOMAIN df.columns :
                    IF \A n \in DOMAIN rows :
                          rows[n][i] = "" \/ IsNumber(rows[n][i])
                    THEN \A n \in DOMAIN rows :
                            IF rows[n][i] = "" THEN df.data[n][i] = NaN
                            ELSE /\ df.data[n][i].kind \in {"int", "float"}
                                 /\ df.data[n][i].val = NumberOf(rows[n][i])
                    ELSE \A n \in DOMAIN rows :
                            df.data[n][i] = CellsOf(rows[n])[i]

====
